---- MODULE Spec2Model ----
(***************************************************************************)
(* Model of dep_manager: the dependency conflict detector of resolver.py   *)
(* (check_specifier_conflict, _generate_test_versions, parse_dependency,   *)
(* find_conflicts), the manifest functions of resolver.py                  *)
(* (get_local_requirements, append_to_requirements), the check-add and     *)
(* remove commands of main.py, calculate_health_status and check_health of *)
(* health.py, audit_package and audit_requirements of audit.py with the    *)
(* audit command, and _determine_overall_winner of compare.py.             *)
(*                                                                         *)
(* Text is modelled as a sequence of tokens: "1.0.1+abc" is                *)
(* <<"1", ".", "0", ".", "1", "+", "abc">> and ">=1.0.1" is                *)
(* <<">", "=", "1", ".", "0", ".", "1">>.  Version() parses such a text    *)
(* into a release tuple and a local label, or fails with InvalidVersion.   *)
(* The version universe is PEP 440 final releases with an optional local   *)
(* label; epochs and pre/post/dev releases are not modelled.               *)
(***************************************************************************)
EXTENDS Integers, Sequences, FiniteSets, TLC

VARIABLES
    spec1,          \* check_specifier_conflict: first SpecifierSet
    spec2,          \* check_specifier_conflict: second SpecifierSet
    test_versions,  \* the list _generate_test_versions returned (<<>> if not called)
    tested,         \* number of loop iterations of check_specifier_conflict
    verdict,        \* "pending" before the call, then "None" or "conflict"
    new_package_name,     \* find_conflicts: name of the package being added
    new_package_version,  \* find_conflicts: its version text
    new_dependencies,     \* find_conflicts: its requires_dist strings
    local_requirements,   \* find_conflicts: the Requirements of the manifest
    conflicts,            \* the list find_conflicts returned
    fc_returned,          \* TRUE once find_conflicts has returned
    manifest,             \* the requirements file: exists, lines, terminated
    requirements,         \* the list get_local_requirements returned
    warnings,             \* line numbers logger.warning was called for
    calls,                \* the last call of a manifest function, and their number
    command,              \* the CLI command being run and its arguments
    pc,                   \* position of the command
    exit_code,            \* exit code of the process (-1 while running)
    output,               \* the status lines the command printed
    effects,              \* append_to_requirements / pip install started
    days_since_commit,    \* calculate_health_status: None or a number of days
    days_since_release,   \* calculate_health_status: a number of days
    health,               \* the (status, recommendation) it returned
    client,               \* check_health: APIClient._client, "none", "open" or "closed"
    pypi_data,            \* check_health: what PyPI answers for the package
    github_data,          \* check_health: what GitHub answers for its repository
    report,               \* check_health: the HealthReport returned, or the exception
    package1,             \* ComparisonResult.package1: name and HealthReport
    package2,             \* ComparisonResult.package2: name and HealthReport
    overall_winner,       \* what _determine_overall_winner returned
    max_concurrent,       \* audit_requirements: the limit
    semaphore,            \* asyncio.Semaphore: value and waiters
    tasks,                \* audit_with_semaphore coroutines: position and result of each
    registry,             \* what PyPI and GitHub answer for each package name
    results,              \* audit_requirements: the list of AuditResult returned
    summary               \* audit_requirements: the AuditSummary returned

checker_vars == <<spec1, spec2, test_versions, tested, verdict>>

find_vars == <<new_package_name, new_package_version, new_dependencies,
               local_requirements, conflicts, fc_returned>>

file_vars == <<manifest, requirements, warnings, calls>>

cli_vars == <<command, pc, exit_code, output, effects>>

report_vars == <<client, pypi_data, github_data, report>>

compare_vars == <<package1, package2, overall_winner>>

health_vars == <<days_since_commit, days_since_release, health, report_vars, compare_vars>>

audit_vars == <<max_concurrent, semaphore, tasks, registry, results, summary>>

vars == <<checker_vars, find_vars, file_vars, cli_vars, health_vars, audit_vars>>

---------------------------------------------------------------------------
(* Bounds *)

\* Largest number of specifiers in one SpecifierSet.
MaxSpecs == 2

\* Largest number of dependency strings of the new package.
MaxDeps == 2

\* Largest number of requirements of the manifest.
MaxLocal == 2

---------------------------------------------------------------------------
(* packaging.version.Version *)

\* Value of a numeric token (int() of a release segment).
int(t) ==
    CASE t = "0" -> 0 [] t = "1" -> 1 [] t = "2" -> 2 [] t = "3" -> 3
      [] t = "4" -> 4 [] t = "5" -> 5 [] t = "10" -> 10 [] t = "20" -> 20
      [] t = "50" -> 50 [] t = "100" -> 100

IsNumber(t) == t \in {"0", "1", "2", "3", "4", "5", "10", "20", "50", "100"}

\* The failure of Version(): raise InvalidVersion.
InvalidVersion == [release |-> <<>>, key |-> <<>>, local |-> "InvalidVersion"]

\* Index of the first "+" of a text, or Len+1 when there is none.
PlusAt(s) ==
    IF \E i \in 1..Len(s) : s[i] = "+"
    THEN CHOOSE i \in 1..Len(s) : s[i] = "+" /\ \A j \in 1..(i - 1) : s[j] # "+"
    ELSE Len(s) + 1

\* A release "N(.N)*": numbers at the odd positions, dots at the even ones.
IsRelease(s) ==
    /\ Len(s) % 2 = 1
    /\ \A i \in 1..Len(s) : IF i % 2 = 1 THEN IsNumber(s[i]) ELSE s[i] = "."

RECURSIVE StripZeros(_)
\* The release without its trailing zeros, as in Version._key.
StripZeros(r) ==
    IF Len(r) > 0 /\ r[Len(r)] = 0 THEN StripZeros(SubSeq(r, 1, Len(r) - 1)) ELSE r

\* The parser of Version(version_str): the parsed version (its release, its
\* local label and the release part of its comparison key), or InvalidVersion.
ParseVersion(s) ==
    LET p     == PlusAt(s)
        pub   == SubSeq(s, 1, p - 1)
        label == SubSeq(s, p + 1, Len(s))
    IN  IF IsRelease(pub) /\ (p > Len(s) \/ (Len(label) = 1 /\ label[1] = "abc"))
        THEN LET release == [i \in 1..((Len(pub) + 1) \div 2) |-> int(pub[2 * i - 1])]
             IN  [release |-> release,
                  key     |-> StripZeros(release),
                  local   |-> IF p > Len(s) THEN "" ELSE label[1]]
        ELSE InvalidVersion

\* The text "a.b.c".
Dotted(a, b, c) == <<a, ".", b, ".", c>>

\* common_versions
common_versions ==
    << Dotted("0", "1", "0"), Dotted("0", "5", "0"), Dotted("1", "0", "0"),
       Dotted("1", "5", "0"), Dotted("2", "0", "0"), Dotted("2", "5", "0"),
       Dotted("3", "0", "0"), Dotted("4", "0", "0"), Dotted("5", "0", "0"),
       Dotted("10", "0", "0"), Dotted("20", "0", "0"), Dotted("50", "0", "0"),
       Dotted("100", "0", "0") >>

\* Version texts of the inputs.
V100 == Dotted("1", "0", "0")
V101 == Dotted("1", "0", "1")
V10 == <<"1", ".", "0">>
V10Star == <<"1", ".", "0", ".", "*">>
V101Local == V101 \o <<"+", "abc">>
V1001 == V100 \o <<".", "1">>
BadVersion == <<"abc">>

\* The texts parsed again and again; their parse is computed once.
ParsedTexts ==
    { common_versions[i] : i \in DOMAIN common_versions }
        \cup { Dotted("0", "0", "0"), V100, V101, V10, V10Star, V101Local, V1001, BadVersion }

ParsedVersions == [t \in ParsedTexts |-> ParseVersion(t)]

\* Version(version_str): the parsed version, or InvalidVersion.
Version(s) == IF s \in ParsedTexts THEN ParsedVersions[s] ELSE ParseVersion(s)

\* _is_valid_version
is_valid_version(s) == Version(s) # InvalidVersion

RECURSIVE TupleLess(_, _)
\* Python's tuple order: lexicographic, a proper prefix is smaller.
TupleLess(a, b) ==
    IF Len(b) = 0 THEN FALSE
    ELSE IF Len(a) = 0 THEN TRUE
    ELSE IF a[1] # b[1] THEN a[1] < b[1]
    ELSE TupleLess(Tail(a), Tail(b))

\* Version.__eq__ and Version.__lt__, comparing the keys (release, local).
VersionEq(a, b) == a.key = b.key /\ a.local = b.local

VersionLess(a, b) ==
    \/ TupleLess(a.key, b.key)
    \/ /\ a.key = b.key
       /\ a.local = ""
       /\ b.local # ""

\* Version.public: the version without its local label.
Public(v) == [v EXCEPT !.local = ""]

---------------------------------------------------------------------------
(* packaging.specifiers.Specifier and SpecifierSet *)

\* A specifier is [operator, version]: the operator and the text after it.
Specifier(op, text) == [operator |-> op, version |-> text]

\* The characters of an operator, as str(spec) prints them.
OperatorText(op) ==
    CASE op = "==" -> <<"=", "=">> [] op = "!=" -> <<"!", "=">>
      [] op = "<=" -> <<"<", "=">> [] op = ">=" -> <<">", "=">>
      [] op = "~=" -> <<"~", "=">> [] op = "<" -> <<"<">> [] op = ">" -> <<">">>

\* str(spec): operator followed by version.
str(spec) == OperatorText(spec.operator) \o spec.version

RECURSIVE lstrip(_, _)
\* str.lstrip(chars): drop the leading characters that are in chars.
lstrip(s, chars) ==
    IF Len(s) > 0 /\ s[1] \in chars THEN lstrip(Tail(s), chars) ELSE s

\* True when the specifier's version ends in ".*" (prefix matching).
IsWildcard(text) ==
    Len(text) >= 2 /\ text[Len(text)] = "*" /\ text[Len(text) - 1] = "."

\* Prefix match of "==V.*": the candidate's public release, padded with zeros
\* to the length of the prefix and cut to it, equals the prefix.
PrefixMatch(v, prefix) ==
    LET n      == Len(prefix)
        padded == [i \in 1..n |-> IF i <= Len(v.release) THEN v.release[i] ELSE 0]
    IN  padded = prefix

\* Specifier._compare_equal
CompareEqual(v, text) ==
    IF IsWildcard(text)
    THEN PrefixMatch(v, Version(SubSeq(text, 1, Len(text) - 2)).release)
    ELSE LET sv == Version(text)
         IN  IF sv.local = "" THEN VersionEq(Public(v), sv) ELSE VersionEq(v, sv)

\* Specifier._compare_greater_than_equal and _compare_less_than_equal
CompareGreaterEqual(v, text) == ~VersionLess(Public(v), Version(text))

CompareLessEqual(v, text) == ~VersionLess(Version(text), Public(v))

\* Specifier._compare_less_than
CompareLess(v, text) == VersionLess(v, Version(text))

\* Specifier._compare_greater_than: a local version of the bound itself is
\* not greater than the bound.
CompareGreater(v, text) ==
    /\ VersionLess(Version(text), v)
    /\ ~(v.local # "" /\ VersionEq(Public(v), Public(Version(text))))

\* Specifier._compare_compatible: "~=V" is ">=V" and "==prefix.*", the prefix
\* being V's release without its last segment.
CompareCompatible(v, text) ==
    LET r == Version(text).release
    IN  /\ CompareGreaterEqual(v, text)
        /\ PrefixMatch(v, SubSeq(r, 1, Len(r) - 1))

\* Specifier.contains(version)
SpecifierContains(spec, v) ==
    CASE spec.operator = "==" -> CompareEqual(v, spec.version)
      [] spec.operator = "!=" -> ~CompareEqual(v, spec.version)
      [] spec.operator = "<=" -> CompareLessEqual(v, spec.version)
      [] spec.operator = ">=" -> CompareGreaterEqual(v, spec.version)
      [] spec.operator = "<"  -> CompareLess(v, spec.version)
      [] spec.operator = ">"  -> CompareGreater(v, spec.version)
      [] spec.operator = "~=" -> CompareCompatible(v, spec.version)

\* `ver in spec`: SpecifierSet.__contains__, the conjunction of its specifiers
\* (an empty set contains every version).
Contains(specset, v) == \A s \in specset : SpecifierContains(s, v)

---------------------------------------------------------------------------
(* resolver.py: check_specifier_conflict and _generate_test_versions *)

\* The sort key of _generate_test_versions: an invalid text sorts as 0.0.0.
SortKey(text) ==
    IF is_valid_version(text) THEN Version(text) ELSE Version(Dotted("0", "0", "0"))

RECURSIVE Arrangements(_)
\* Every order of the elements of a set.
Arrangements(G) ==
    IF G = {} THEN { <<>> }
    ELSE UNION { { <<x>> \o rest : rest \in Arrangements(G \ {x}) } : x \in G }

RECURSIVE SortedFrom(_, _, _)
\* The sorted lists of the elements of S whose rank is at least r.
SortedFrom(S, rank, r) ==
    IF r >= Cardinality(S) THEN { <<>> }
    ELSE LET group == { x \in S : rank[x] = r }
         IN  { a \o b : a \in Arrangements(group),
                        b \in SortedFrom(S, rank, r + Cardinality(group)) }

\* sorted(list(versions), key=SortKey): every list the call can return.  The
\* sort is stable and the iteration order of a set of strings is arbitrary,
\* so texts with equal keys may come in either order.  The rank of a text is
\* the number of texts with a smaller key.
sorted(S) ==
    UNION { UNION { SortedFrom(S, rank, 0) :
                    rank \in { [x \in S |-> Cardinality({ y \in S : VersionLess(key[y], key[x]) })] } } :
            key \in { [x \in S |-> SortKey(x)] } }

\* Mutant: the version literals of the specifiers are not extracted.
ExtractedVersions_NoLiterals(s1, s2) ==
    { common_versions[i] : i \in DOMAIN common_versions }

\* The set `versions` of _generate_test_versions before sorting.
ExtractedVersions(s1, s2) ==
    LET stripped == { lstrip(str(spec), {">", "<", "=", "!", "~"}) : spec \in s1 \cup s2 }
    IN  { t \in stripped : t # <<>> }
            \cup { common_versions[i] : i \in DOMAIN common_versions }

\* _generate_test_versions(spec1, spec2): the lists it can return.
generate_test_versions(s1, s2) == sorted(ExtractedVersions(s1, s2))

\* The return value None, and a conflict description.
None == [kind |-> "None", package_name |-> "", left |-> {}, right |-> {}]

ConflictText(package_name, s1, s2) ==
    [kind |-> "conflict", package_name |-> package_name, left |-> s1, right |-> s2]

RECURSIVE ProbeLoop_FirstOnly(_, _, _, _, _)
\* Mutant: the loop tests membership in spec1 only.
ProbeLoop_FirstOnly(s1, s2, package_name, tv, i) ==
    IF i > Len(tv)
    THEN [result |-> ConflictText(package_name, s1, s2), tested |-> Len(tv)]
    ELSE LET ver == Version(tv[i])
         IN  IF ver = InvalidVersion
             THEN ProbeLoop_FirstOnly(s1, s2, package_name, tv, i + 1)
             ELSE IF Contains(s1, ver)
             THEN [result |-> None, tested |-> i]
             ELSE ProbeLoop_FirstOnly(s1, s2, package_name, tv, i + 1)

RECURSIVE ProbeLoop_NoFinalReturn(_, _, _, _, _)
\* Mutant: the function falls off its end (returns None) when no probe fits.
ProbeLoop_NoFinalReturn(s1, s2, package_name, tv, i) ==
    IF i > Len(tv)
    THEN [result |-> None, tested |-> Len(tv)]
    ELSE LET ver == Version(tv[i])
         IN  IF ver = InvalidVersion
             THEN ProbeLoop_NoFinalReturn(s1, s2, package_name, tv, i + 1)
             ELSE IF Contains(s1, ver) /\ Contains(s2, ver)
             THEN [result |-> None, tested |-> i]
             ELSE ProbeLoop_NoFinalReturn(s1, s2, package_name, tv, i + 1)

\* The outcome of a call that an InvalidVersion exception leaves.
Raised == [kind |-> "InvalidVersion", package_name |-> "", left |-> {}, right |-> {}]

RECURSIVE ProbeLoop_NoExcept(_, _, _, _, _)
\* Mutant: the loop has no except clause, InvalidVersion propagates.
ProbeLoop_NoExcept(s1, s2, package_name, tv, i) ==
    IF i > Len(tv)
    THEN [result |-> ConflictText(package_name, s1, s2), tested |-> Len(tv)]
    ELSE LET ver == Version(tv[i])
         IN  IF ver = InvalidVersion
             THEN [result |-> Raised, tested |-> i]
             ELSE IF Contains(s1, ver) /\ Contains(s2, ver)
             THEN [result |-> None, tested |-> i]
             ELSE ProbeLoop_NoExcept(s1, s2, package_name, tv, i + 1)

RECURSIVE ProbeLoop_InvalidIsCompatible(_, _, _, _, _)
\* Mutant: a probe that is no version ends the loop with None.
ProbeLoop_InvalidIsCompatible(s1, s2, package_name, tv, i) ==
    IF i > Len(tv)
    THEN [result |-> ConflictText(package_name, s1, s2), tested |-> Len(tv)]
    ELSE LET ver == Version(tv[i])
         IN  IF ver = InvalidVersion
             THEN [result |-> None, tested |-> i]
             ELSE IF Contains(s1, ver) /\ Contains(s2, ver)
             THEN [result |-> None, tested |-> i]
             ELSE ProbeLoop_InvalidIsCompatible(s1, s2, package_name, tv, i + 1)

RECURSIVE ProbeLoop(_, _, _, _, _)
\* The for loop of check_specifier_conflict from position i of test_versions:
\* the result and the number of iterations run.
ProbeLoop(s1, s2, package_name, tv, i) ==
    IF i > Len(tv)
    THEN [result |-> ConflictText(package_name, s1, s2), tested |-> Len(tv)]
    ELSE LET ver == Version(tv[i])
         IN  IF ver = InvalidVersion
             THEN ProbeLoop(s1, s2, package_name, tv, i + 1)
             ELSE IF Contains(s1, ver) /\ Contains(s2, ver)
             THEN [result |-> None, tested |-> i]
             ELSE ProbeLoop(s1, s2, package_name, tv, i + 1)

\* Mutant: no short-circuit for an empty SpecifierSet.
check_specifier_conflict_NoShortCircuit(s1, s2, package_name) ==
    { LET run == ProbeLoop(s1, s2, package_name, tv, 1)
      IN  [result |-> run.result, tested |-> run.tested, test_versions |-> tv] :
          tv \in generate_test_versions(s1, s2) }

\* check_specifier_conflict(spec1, spec2, package_name): the outcomes of the
\* call, one for each list _generate_test_versions can return.
check_specifier_conflict(s1, s2, package_name) ==
    IF s1 = {} \/ s2 = {}
    THEN { [result |-> None, tested |-> 0, test_versions |-> <<>>] }
    ELSE { LET run == ProbeLoop(s1, s2, package_name, tv, 1)
           IN  [result |-> run.result, tested |-> run.tested, test_versions |-> tv] :
               tv \in generate_test_versions(s1, s2) }

---------------------------------------------------------------------------
(* Inputs of the compatibility checker *)

\* The specifiers the constraint sets are built from: every operator, a
\* version text with two segments ("1.0"), a prefix ("1.0.*") and a local
\* version ("1.0.1+abc").
Specifiers ==
    { Specifier(">", V100), Specifier("<", V101), Specifier("<=", V100),
      Specifier("==", V101), Specifier(">=", V101), Specifier("!=", V101),
      Specifier("~=", V101), Specifier("==", V10),
      Specifier("==", V10Star), Specifier("==", V101Local) }

\* The SpecifierSets of at most MaxSpecs specifiers.
SpecifierSets == { S \in SUBSET Specifiers : Cardinality(S) <= MaxSpecs }

---------------------------------------------------------------------------
(* Specification of the compatibility checker: one call on any two sets *)

\* No call of find_conflicts is modelled.
FindIdle ==
    /\ new_package_name = <<>>
    /\ new_package_version = <<>>
    /\ new_dependencies = <<>>
    /\ local_requirements = <<>>
    /\ conflicts = <<>>
    /\ fc_returned = FALSE

\* The value None of an Optional[str], and a string.
NoVersion == [present |-> FALSE, text |-> <<>>]

SomeVersion(text) == [present |-> TRUE, text |-> text]

\* A file that does not exist.
MissingFile == [exists |-> FALSE, lines |-> <<>>, terminated |-> TRUE]

\* No call of a manifest function was made.
NoCall ==
    [count |-> 0, op |-> "none", package_name |-> <<>>, version |-> NoVersion,
     result |-> FALSE]

\* No file exists and no manifest function is called.
FileIdle ==
    /\ manifest = MissingFile
    /\ requirements = <<>>
    /\ warnings = <<>>
    /\ calls = NoCall

\* No command is run.
CliIdle ==
    /\ command = [name |-> "none", package_name |-> <<>>, force |-> FALSE]
    /\ pc = "idle"
    /\ exit_code = -1
    /\ output = <<>>
    /\ effects = <<>>

\* The value None of an Optional[int].
NoDays == [present |-> FALSE, days |-> 0]

\* fetch_pypi_info raised: the text str(e) of the exception.
PyPIError(message) ==
    [ok |-> FALSE, message |-> message, version |-> <<>>, days |-> 0, repo |-> FALSE]

\* The answer of fetch_github_info, as check_health reads it: kind is
\* "error" when the fetch raised, "no_pushed_at" when pushed_at is null,
\* "bad_counts" when a count is missing or negative, "ok" otherwise.
GitHubData(kind, days, stars) == [kind |-> kind, days |-> days, stars |-> stars]

\* check_health has not returned or raised.
NoReport ==
    [kind |-> "none", message |-> "", version |-> <<>>, github |-> FALSE, stars |-> 0,
     health_status |-> "", recommendation |-> "",
     days_since_commit |-> NoDays, days_since_release |-> 0]

\* check_health is not called.
ReportIdle ==
    /\ client = "none"
    /\ pypi_data = PyPIError("")
    /\ github_data = GitHubData("error", 0, 0)
    /\ report = NoReport

\* _determine_overall_winner is not called.
CompareIdle ==
    /\ package1 = [name |-> <<>>, report |-> NoReport]
    /\ package2 = [name |-> <<>>, report |-> NoReport]
    /\ overall_winner = <<>>

\* calculate_health_status is not called.
HealthIdle ==
    /\ days_since_commit = NoDays
    /\ days_since_release = 0
    /\ health = <<"", "">>
    /\ ReportIdle
    /\ CompareIdle

\* AuditSummary(): every counter is 0.
AuditSummary ==
    [total_packages |-> 0, healthy_packages |-> 0, slow_packages |-> 0,
     zombie_packages |-> 0, outdated_packages |-> 0, error_packages |-> 0,
     packages_with_github |-> 0]

\* audit_requirements is not called.
AuditIdle ==
    /\ max_concurrent = 0
    /\ semaphore = [value |-> 0, waiters |-> <<>>]
    /\ tasks = <<>>
    /\ registry = <<>>
    /\ results = <<>>
    /\ summary = AuditSummary

Init ==
    /\ spec1 \in SpecifierSets
    /\ spec2 \in SpecifierSets
    /\ test_versions = <<>>
    /\ tested = 0
    /\ verdict = "pending"
    /\ FindIdle
    /\ FileIdle /\ CliIdle /\ HealthIdle /\ AuditIdle

\* The call check_specifier_conflict(spec1, spec2, "d").
CheckSpecifierConflict ==
    /\ verdict = "pending"
    /\ \E out \in check_specifier_conflict(spec1, spec2, "d") :
          /\ verdict' = out.result.kind
          /\ tested' = out.tested
          /\ test_versions' = out.test_versions
    /\ UNCHANGED <<spec1, spec2, find_vars, file_vars, cli_vars, health_vars, audit_vars>>

Next == CheckSpecifierConflict

Spec == Init /\ [][Next]_vars

---------------------------------------------------------------------------
(* resolver.py: parse_dependency and find_conflicts *)

\* Names are sequences of characters: "a-b" is <<"a", "-", "b">>.

\* str.lower() of one character.
LowerChar(c) ==
    CASE c = "A" -> "a" [] c = "B" -> "b" [] c = "D" -> "d" [] c = "X" -> "x"
      [] OTHER -> c

\* name.lower()
lower(name) == [i \in 1..Len(name) |-> LowerChar(name[i])]

\* name.replace(old, new) for single characters.
replace(name, old, new) == [i \in 1..Len(name) |-> IF name[i] = old THEN new ELSE name[i]]

\* Mutant: the name is lowercased only.
NormalizedName_LowerOnly(name) == lower(name)

\* name.lower().replace('-', '_')
NormalizedName(name) == replace(lower(name), "-", "_")

\* A Requirement object: name, SpecifierSet and marker (<<>> when absent).
Requirement(name, specifier, marker) ==
    [name |-> name, specifier |-> specifier, marker |-> marker]

\* A requires_dist string: the text of a requirement, or a text that
\* Requirement() rejects with InvalidRequirement.
DependencyString(name, specifier, marker) ==
    [name |-> name, specifier |-> specifier, marker |-> marker, wellformed |-> TRUE]

MalformedString(name) ==
    [name |-> name, specifier |-> {}, marker |-> <<>>, wellformed |-> FALSE]

\* The value None of an Optional[Requirement].
NoRequirement == [name |-> <<>>, specifier |-> {}, marker |-> <<"None">>]

\* 'word' in str(req.marker): the marker text mentions the word.
MarkerMentions(marker, word) == \E i \in 1..Len(marker) : marker[i] = word

\* Mutant: the test for an extra marker is missing.
parse_dependency_NoExtraCheck(dep_string) ==
    IF ~dep_string.wellformed THEN NoRequirement
    ELSE IF /\ dep_string.marker # <<>>
            /\ \E w \in {"platform_system", "sys_platform"} :
                   MarkerMentions(dep_string.marker, w)
    THEN NoRequirement
    ELSE Requirement(dep_string.name, dep_string.specifier, dep_string.marker)

\* Mutant: every dependency with a marker is skipped.
parse_dependency_AnyMarker(dep_string) ==
    IF ~dep_string.wellformed THEN NoRequirement
    ELSE IF dep_string.marker # <<>> THEN NoRequirement
    ELSE Requirement(dep_string.name, dep_string.specifier, dep_string.marker)

\* parse_dependency(dep_string): the Requirement, or None when the string is
\* invalid or its marker mentions extra, platform_system or sys_platform.
parse_dependency(dep_string) ==
    IF ~dep_string.wellformed THEN NoRequirement
    ELSE IF dep_string.marker # <<>> /\ MarkerMentions(dep_string.marker, "extra")
    THEN NoRequirement
    ELSE IF /\ dep_string.marker # <<>>
            /\ \E w \in {"platform_system", "sys_platform"} :
                   MarkerMentions(dep_string.marker, w)
    THEN NoRequirement
    ELSE Requirement(dep_string.name, dep_string.specifier, dep_string.marker)

(* Inputs of find_conflicts *)

NameD == <<"d">>
NameDUpper == <<"D">>
NameAB == <<"a", "-", "b">>
NameABUpper == <<"A", "_", "B">>
NameX == <<"x">>

\* Markers: an extra, two platform selectors, a Python-version marker.
ExtraMarker == <<"extra", "==", "\"", "test", "\"">>
SysPlatformMarker == <<"sys_platform", "==", "\"", "win32", "\"">>
PlatformSystemMarker == <<"platform_system", "==", "\"", "Linux", "\"">>
PythonVersionMarker == <<"python_version", "<", "\"", "3.8", "\"">>

\* The requirements a manifest is built from.
LocalChoices ==
    { Requirement(NameD, { Specifier("==", V101) }, <<>>),
      Requirement(NameDUpper, { Specifier("<=", V100) }, <<>>),
      Requirement(NameABUpper, { Specifier("==", V101) }, <<>>),
      Requirement(NameAB, {}, <<>>) }

\* The dependency strings of the new package (no markers).
DependencyChoices ==
    { DependencyString(NameD, { Specifier(">=", V101) }, <<>>),
      DependencyString(NameD, { Specifier("<=", V100) }, <<>>),
      DependencyString(NameDUpper, { Specifier("==", V101Local) }, <<>>),
      DependencyString(NameD, {}, <<>>) }

\* The new package: its name and its own version.
NewPackages ==
    { <<NameAB, V101>>, <<NameAB, V100>>, <<NameAB, BadVersion>>, <<NameX, V100>> }

\* The dependency strings of the marker specification.
MarkedDependencyChoices ==
    { DependencyString(NameD, { Specifier("<=", V100) }, <<>>),
      DependencyString(NameD, { Specifier("<=", V100) }, ExtraMarker),
      DependencyString(NameD, { Specifier("<=", V100) }, SysPlatformMarker),
      DependencyString(NameD, { Specifier("<=", V100) }, PlatformSystemMarker),
      DependencyString(NameDUpper, { Specifier("<=", V100) }, PythonVersionMarker),
      DependencyString(NameD, { Specifier(">=", V101) }, PythonVersionMarker),
      MalformedString(NameD) }

MarkedLocalChoices ==
    { Requirement(NameD, { Specifier("==", V101) }, <<>>),
      Requirement(NameX, { Specifier("==", V101) }, <<>>) }

\* The lists of at most n elements of S.
ListsUpTo(S, n) == UNION { [1..k -> S] : k \in 0..n }

(* find_conflicts *)

\* The empty dict.
EmptyMap == [n \in {} |-> NoRequirement]

RECURSIVE LocalMap_FirstWins(_)
\* Mutant: an earlier requirement of the same name is kept.
LocalMap_FirstWins(reqs) ==
    IF reqs = <<>> THEN EmptyMap
    ELSE LET req == reqs[Len(reqs)]
         IN  LocalMap_FirstWins(SubSeq(reqs, 1, Len(reqs) - 1))
                 @@ (NormalizedName(req.name) :> req)

RECURSIVE LocalMap(_)
\* local_map after the loop over local_requirements: each normalized name
\* maps to the last requirement of that name.
LocalMap(reqs) ==
    IF reqs = <<>> THEN EmptyMap
    ELSE LET req == reqs[Len(reqs)]
         IN  (NormalizedName(req.name) :> req)
                 @@ LocalMap(SubSeq(reqs, 1, Len(reqs) - 1))

\* The two messages of find_conflicts.
SelfMessage(name, version, existing_req) ==
    [kind |-> "self", new_package_name |-> name, new_package_version |-> version,
     new_dep |-> NoRequirement, local_req |-> existing_req]

DepMessage(name, new_dep, local_req) ==
    [kind |-> "dep", new_package_name |-> name, new_package_version |-> <<>>,
     new_dep |-> new_dep, local_req |-> local_req]

\* Mutant: the test of the version against the existing requirement is inverted.
SelfConflict_Inverted(name, version, local_map) ==
    LET n == NormalizedName(name)
    IN  IF n \notin DOMAIN local_map THEN <<>>
        ELSE IF local_map[n].specifier = {} THEN <<>>
        ELSE IF Version(version) = InvalidVersion THEN <<>>
        ELSE IF Contains(local_map[n].specifier, Version(version))
        THEN << SelfMessage(name, version, local_map[n]) >>
        ELSE <<>>

\* Mutant: a version that does not parse is reported as a self-conflict.
SelfConflict_InvalidReported(name, version, local_map) ==
    LET n == NormalizedName(name)
    IN  IF n \notin DOMAIN local_map THEN <<>>
        ELSE IF local_map[n].specifier = {} THEN <<>>
        ELSE IF Version(version) = InvalidVersion
        THEN << SelfMessage(name, version, local_map[n]) >>
        ELSE IF ~Contains(local_map[n].specifier, Version(version))
        THEN << SelfMessage(name, version, local_map[n]) >>
        ELSE <<>>

\* The check of the new package itself against an existing requirement: the
\* list `conflicts` after it.
SelfConflict(name, version, local_map) ==
    LET n == NormalizedName(name)
    IN  IF n \notin DOMAIN local_map THEN <<>>
        ELSE IF local_map[n].specifier = {} THEN <<>>
        ELSE IF Version(version) = InvalidVersion THEN <<>>
        ELSE IF ~Contains(local_map[n].specifier, Version(version))
        THEN << SelfMessage(name, version, local_map[n]) >>
        ELSE <<>>

RECURSIVE ParsedDependencies(_)
\* new_deps_parsed: the dependencies parse_dependency returns, in order.
ParsedDependencies(deps) ==
    IF deps = <<>> THEN <<>>
    ELSE LET req == parse_dependency(deps[1])
         IN  IF req # NoRequirement
             THEN <<req>> \o ParsedDependencies(Tail(deps))
             ELSE ParsedDependencies(Tail(deps))

\* Mutant: the local requirement is passed for both specifier sets.
DepConflict_LocalTwice(new_dep, local_req) ==
    { out.result.kind :
        out \in check_specifier_conflict(local_req.specifier, local_req.specifier,
                                         new_dep.name) }

\* The pairs of SpecifierSets of the inputs, and for each the kinds of result
\* check_specifier_conflict can give, computed once.  The package name only
\* appears in the description, which find_conflicts tests for truth.
InputPairs ==
    { d.specifier : d \in DependencyChoices \cup MarkedDependencyChoices }
        \X { r.specifier : r \in LocalChoices \cup MarkedLocalChoices }

ResultKinds(s1, s2, package_name) ==
    { out.result.kind : out \in check_specifier_conflict(s1, s2, package_name) }

InputResultKinds == { <<p, ResultKinds(p[1], p[2], <<>>)>> : p \in InputPairs }

\* conflict_msg of one dependency: the kinds of result the call can give.
DepConflict(new_dep, local_req) ==
    IF <<new_dep.specifier, local_req.specifier>> \in InputPairs
    THEN (CHOOSE q \in InputResultKinds :
            q[1] = <<new_dep.specifier, local_req.specifier>>)[2]
    ELSE ResultKinds(new_dep.specifier, local_req.specifier, new_dep.name)

RECURSIVE DepMessages_Prepend(_, _, _, _)
\* Mutant: a message is put in front of the messages found before it.
DepMessages_Prepend(parsed, local_map, name, i) ==
    IF i > Len(parsed) THEN { <<>> }
    ELSE LET new_dep == parsed[i]
             n       == NormalizedName(new_dep.name)
         IN  IF n \notin DOMAIN local_map
             THEN DepMessages_Prepend(parsed, local_map, name, i + 1)
             ELSE UNION { { IF kind = "conflict"
                            THEN rest \o << DepMessage(name, new_dep, local_map[n]) >>
                            ELSE rest :
                            rest \in DepMessages_Prepend(parsed, local_map, name, i + 1) } :
                          kind \in DepConflict(new_dep, local_map[n]) }

RECURSIVE DepMessages(_, _, _, _)
\* The loop over new_deps_parsed from position i: the lists of messages it
\* can append.
DepMessages(parsed, local_map, name, i) ==
    IF i > Len(parsed) THEN { <<>> }
    ELSE LET new_dep == parsed[i]
             n       == NormalizedName(new_dep.name)
         IN  IF n \notin DOMAIN local_map
             THEN DepMessages(parsed, local_map, name, i + 1)
             ELSE UNION { { IF kind = "conflict"
                            THEN << DepMessage(name, new_dep, local_map[n]) >> \o rest
                            ELSE rest :
                            rest \in DepMessages(parsed, local_map, name, i + 1) } :
                          kind \in DepConflict(new_dep, local_map[n]) }

\* find_conflicts(new_package_name, new_package_version, new_dependencies,
\* local_requirements): the lists it can return.
find_conflicts(name, version, deps, reqs) ==
    UNION { { SelfConflict(name, version, local_map) \o dep_part :
              dep_part \in DepMessages(ParsedDependencies(deps), local_map, name, 1) } :
            local_map \in { LocalMap(reqs) } }

---------------------------------------------------------------------------
(* Specifications of find_conflicts: one call *)

\* No call of check_specifier_conflict of its own is modelled.
CheckerIdle ==
    /\ spec1 = {}
    /\ spec2 = {}
    /\ test_versions = <<>>
    /\ tested = 0
    /\ verdict = "idle"

InitFind ==
    /\ CheckerIdle
    /\ \E p \in NewPackages : new_package_name = p[1] /\ new_package_version = p[2]
    /\ new_dependencies \in ListsUpTo(DependencyChoices, MaxDeps)
    /\ local_requirements \in ListsUpTo(LocalChoices, MaxLocal)
    /\ conflicts = <<>>
    /\ fc_returned = FALSE
    /\ FileIdle /\ CliIdle /\ HealthIdle /\ AuditIdle

InitMarkers ==
    /\ CheckerIdle
    /\ new_package_name = NameAB
    /\ new_package_version = V100
    /\ new_dependencies \in ListsUpTo(MarkedDependencyChoices, MaxDeps)
    /\ local_requirements \in ListsUpTo(MarkedLocalChoices, MaxLocal)
    /\ conflicts = <<>>
    /\ fc_returned = FALSE
    /\ FileIdle /\ CliIdle /\ HealthIdle /\ AuditIdle

\* Mutant: the call sorts the caller's list of requirements in place, by
\* reversing it.
FindConflicts_ReordersLocal ==
    /\ ~fc_returned
    /\ conflicts' \in find_conflicts(new_package_name, new_package_version,
                                     new_dependencies, local_requirements)
    /\ fc_returned' = TRUE
    /\ local_requirements' =
           [i \in DOMAIN local_requirements |->
               local_requirements[Len(local_requirements) + 1 - i]]
    /\ UNCHANGED <<new_package_name, new_package_version, new_dependencies,
                   checker_vars>>
    /\ UNCHANGED <<file_vars, cli_vars, health_vars, audit_vars>>

\* The call find_conflicts(new_package_name, new_package_version,
\* new_dependencies, local_requirements).
FindConflicts ==
    /\ ~fc_returned
    /\ conflicts' \in find_conflicts(new_package_name, new_package_version,
                                     new_dependencies, local_requirements)
    /\ fc_returned' = TRUE
    /\ UNCHANGED <<new_package_name, new_package_version, new_dependencies,
                   local_requirements, checker_vars>>
    /\ UNCHANGED <<file_vars, cli_vars, health_vars, audit_vars>>

NextFind == FindConflicts

SpecFind == InitFind /\ [][NextFind]_vars

SpecMarkers == InitMarkers /\ [][NextFind]_vars

---------------------------------------------------------------------------
(* Properties of the compatibility checker *)

\* The 13 fixed probe versions.
FixedProbes ==
    { Dotted("0", "1", "0"), Dotted("0", "5", "0"), Dotted("1", "0", "0"),
      Dotted("1", "5", "0"), Dotted("2", "0", "0"), Dotted("2", "5", "0"),
      Dotted("3", "0", "0"), Dotted("4", "0", "0"), Dotted("5", "0", "0"),
      Dotted("10", "0", "0"), Dotted("20", "0", "0"), Dotted("50", "0", "0"),
      Dotted("100", "0", "0") }

\* The probe set: the version literals of both sets and the fixed probes.
ProbeSet(A, B) == { s.version : s \in A \cup B } \cup FixedProbes

\* The text is a version and the version satisfies both sets.
SatisfiesBoth(text, A, B) ==
    /\ is_valid_version(text)
    /\ Contains(A, Version(text))
    /\ Contains(B, Version(text))

\* The versions among which a true common version is looked for; 1.0.0.1 lies
\* strictly between 1.0.0 and 1.0.1.
VersionUniverse == { t \in ParsedTexts : is_valid_version(t) }

Returned == verdict # "pending"

\* C1: for two non-empty sets the checker returns None if and only if a
\* version of the probe set (the version literals of both sets and the 13
\* fixed versions) satisfies both; otherwise it returns a conflict.  The
\* versions tested are exactly the probe set.
C1_ProbeVerdict ==
    (Returned /\ spec1 # {} /\ spec2 # {}) =>
        /\ verdict \in {"None", "conflict"}
        /\ { test_versions[i] : i \in DOMAIN test_versions } = ProbeSet(spec1, spec2)
        /\ verdict = "None" <=>
               \E t \in ProbeSet(spec1, spec2) : SatisfiesBoth(t, spec1, spec2)

\* C1 witness: compatible through a version literal only, no fixed probe fits.
C1_Witness ==
    /\ verdict = "None"
    /\ spec1 # {} /\ spec2 # {}
    /\ ~\E t \in FixedProbes : SatisfiesBoth(t, spec1, spec2)

\* C2: the verdict does not depend on the order of the arguments.
C2_Symmetric ==
    Returned =>
        \A out \in check_specifier_conflict(spec2, spec1, "d") :
            out.result.kind = verdict

\* C2 witness: a conflict between two different non-empty sets.
C2_Witness ==
    /\ verdict = "conflict"
    /\ spec1 # {} /\ spec2 # {}
    /\ spec1 # spec2

\* C3: with an empty set on either side the checker returns None and neither
\* generates nor tests a probe.
C3_EmptyShortCircuit ==
    (Returned /\ (spec1 = {} \/ spec2 = {})) =>
        /\ verdict = "None"
        /\ test_versions = <<>>
        /\ tested = 0

\* C3 witness: an empty set against a set no probe satisfies.
C3_Witness ==
    /\ verdict = "None"
    /\ spec1 = {}
    /\ spec2 # {}
    /\ ~\E t \in ProbeSet(spec2, spec2) : SatisfiesBoth(t, spec2, spec2)

\* C4: two non-empty sets with a common version but none in the probe set are
\* reported as conflicting.
C4_FalseConflict ==
    ( /\ Returned
      /\ spec1 # {} /\ spec2 # {}
      /\ \E u \in VersionUniverse : SatisfiesBoth(u, spec1, spec2)
      /\ ~\E t \in ProbeSet(spec1, spec2) : SatisfiesBoth(t, spec1, spec2) )
        => verdict = "conflict"

\* C4 witness: a satisfiable set reported as conflicting with itself.
C4_Witness ==
    /\ verdict = "conflict"
    /\ spec1 = spec2
    /\ \E u \in VersionUniverse : Contains(spec1, Version(u))

\* C26: when the checker returns None for two non-empty sets, the probe it
\* stopped at is a version that satisfies both sets, so a version common to
\* both exists; no earlier probe does.
C26_CompatibleIsSound ==
    (Returned /\ verdict = "None" /\ spec1 # {} /\ spec2 # {}) =>
        /\ tested \in DOMAIN test_versions
        /\ SatisfiesBoth(test_versions[tested], spec1, spec2)
        /\ test_versions[tested] \in VersionUniverse
        /\ \A i \in 1..(tested - 1) : ~SatisfiesBoth(test_versions[i], spec1, spec2)

\* C26 witness: None is returned at a probe that follows a probe which is
\* no version.
C26_Witness ==
    /\ Returned /\ verdict = "None"
    /\ spec1 # {} /\ spec2 # {}
    /\ \E i \in 1..(tested - 1) : ~is_valid_version(test_versions[i])

---------------------------------------------------------------------------
(* Properties of find_conflicts *)

\* The positions of the manifest whose requirement has the normalized name n.
LocalPositions(n) ==
    { i \in DOMAIN local_requirements : NormalizedName(local_requirements[i].name) = n }

\* The last requirement of the manifest with the normalized name n.
LastLocal(n) ==
    local_requirements[CHOOSE i \in LocalPositions(n) : \A k \in LocalPositions(n) : k <= i]

\* The marker mentions extra, platform_system or sys_platform.
SkipMarker(marker) ==
    \E i \in 1..Len(marker) : marker[i] \in {"extra", "platform_system", "sys_platform"}

\* A declared dependency that applies: a valid requirement without such a marker.
Applicable(dep) == dep.wellformed /\ ~SkipMarker(dep.marker)

\* The Requirement a dependency string states.
Stated(dep) == Requirement(dep.name, dep.specifier, dep.marker)

\* The message of a declared dependency against the manifest's requirement.
MessageOf(dep) ==
    DepMessage(new_package_name, Stated(dep), LastLocal(NormalizedName(dep.name)))

Emitted(msg) == \E j \in DOMAIN conflicts : conflicts[j] = msg

\* A single exact pin "==v": one specifier, operator ==, v a version.
IsExactPin(S) ==
    /\ Cardinality(S) = 1
    /\ \A s \in S : s.operator = "==" /\ is_valid_version(s.version)

PinnedVersion(S) == Version((CHOOSE s \in S : TRUE).version)

\* The declared dependencies C5 is about: applicable, with a non-empty set,
\* on a name the manifest pins exactly, once.
PinnedDependencies ==
    { i \in DOMAIN new_dependencies :
        /\ Applicable(new_dependencies[i])
        /\ new_dependencies[i].specifier # {}
        /\ Cardinality(LocalPositions(NormalizedName(new_dependencies[i].name))) = 1
        /\ IsExactPin(LastLocal(NormalizedName(new_dependencies[i].name)).specifier) }

\* No literal of the set is a local version ("+label").
NoLocalLiteral(S) == \A s \in S : \A k \in 1..Len(s.version) : s.version[k] # "+"

SelfFails ==
    LET n == NormalizedName(new_package_name)
    IN  /\ LocalPositions(n) # {}
        /\ LastLocal(n).specifier # {}
        /\ is_valid_version(new_package_version)
        /\ ~Contains(LastLocal(n).specifier, Version(new_package_version))

\* C6: the self-conflict message is emitted if and only if the normalized
\* name of the new package is in the manifest, that requirement has a
\* non-empty set, the new version is valid and does not satisfy the set.
C6_SelfConflict ==
    fc_returned =>
        /\ (\E j \in DOMAIN conflicts : conflicts[j].kind = "self") <=> SelfFails
        /\ \A j \in DOMAIN conflicts :
               conflicts[j].kind = "self" =>
                   conflicts[j] = SelfMessage(new_package_name, new_package_version,
                                              LastLocal(NormalizedName(new_package_name)))

\* C6 witness: a self-conflict message was emitted.
C6_Witness ==
    /\ fc_returned
    /\ \E j \in DOMAIN conflicts : conflicts[j].kind = "self"

RECURSIVE IsSubsequence(_, _)
\* a is b with some elements left out.
IsSubsequence(a, b) ==
    IF a = <<>> THEN TRUE
    ELSE IF b = <<>> THEN FALSE
    ELSE IF a[1] = b[1] THEN IsSubsequence(Tail(a), Tail(b))
    ELSE IsSubsequence(a, Tail(b))

\* The declared dependencies that are checked: applicable, on a name of the manifest.
CheckedDependencies ==
    { i \in DOMAIN new_dependencies :
        /\ Applicable(new_dependencies[i])
        /\ LocalPositions(NormalizedName(new_dependencies[i].name)) # {} }

RECURSIVE CandidateMessages(_)
\* The messages of the checked dependencies from position i on, in input order.
CandidateMessages(i) ==
    IF i > Len(new_dependencies) THEN <<>>
    ELSE IF i \in CheckedDependencies
    THEN << MessageOf(new_dependencies[i]) >> \o CandidateMessages(i + 1)
    ELSE CandidateMessages(i + 1)

\* The check of a declared dependency against the manifest fails.
DepFails(dep) ==
    "conflict" \in DepConflict(dep, LastLocal(NormalizedName(dep.name)))

\* The returned list without its self-conflict message.
DepPart ==
    IF conflicts # <<>> /\ conflicts[1].kind = "self" THEN Tail(conflicts) ELSE conflicts

\* C7: the self-conflict message, if any, comes first; the other messages are
\* those of declared dependencies, at most one each, in input order; the
\* list has at most 1 + len(new_dependencies) elements and is empty exactly
\* when no check failed.
C7_Order ==
    fc_returned =>
        /\ \A j \in DOMAIN conflicts : conflicts[j].kind = "self" => j = 1
        /\ IsSubsequence(DepPart, CandidateMessages(1))
        /\ Len(conflicts) <= 1 + Len(new_dependencies)
        /\ conflicts = <<>> <=>
               /\ ~SelfFails
               /\ \A i \in CheckedDependencies : ~DepFails(new_dependencies[i])

\* C7 witness: a self-conflict message followed by two different messages.
C7_Witness ==
    /\ fc_returned
    /\ Len(conflicts) = 3
    /\ conflicts[1].kind = "self"
    /\ conflicts[2] # conflicts[3]

\* C8: a declared dependency whose marker mentions extra, platform_system or
\* sys_platform contributes no message, whatever the manifest pins.
C8_SkippedMarkers ==
    fc_returned =>
        \A j \in DOMAIN conflicts :
            conflicts[j].kind = "dep" => ~SkipMarker(conflicts[j].new_dep.marker)

\* C8 witness: every declared dependency has such a marker and would conflict
\* with the manifest's pin; nothing is reported.
C8_Witness ==
    /\ fc_returned
    /\ new_dependencies # <<>>
    /\ \A i \in DOMAIN new_dependencies :
          /\ new_dependencies[i].wellformed
          /\ SkipMarker(new_dependencies[i].marker)
          /\ LocalPositions(NormalizedName(new_dependencies[i].name)) # {}
          /\ DepFails(new_dependencies[i])
    /\ \E i, k \in DOMAIN new_dependencies :
          new_dependencies[i].marker # new_dependencies[k].marker
    /\ conflicts = <<>>

\* A marker that mentions none of the three words.
OtherMarker(dep) == dep.wellformed /\ dep.marker # <<>> /\ ~SkipMarker(dep.marker)

\* A list of dependency strings, a requirement and a message without such markers.
WithoutOtherMarkers(deps) ==
    [i \in DOMAIN deps |-> IF OtherMarker(deps[i]) THEN [deps[i] EXCEPT !.marker = <<>>]
                           ELSE deps[i]]

MessageWithoutMarker(msg) ==
    IF msg.kind = "dep" /\ ~SkipMarker(msg.new_dep.marker)
    THEN [msg EXCEPT !.new_dep.marker = <<>>]
    ELSE msg

\* C9: a declared dependency whose marker mentions none of the three words
\* is returned by parse_dependency and checked exactly as if it had no marker.
C9_OtherMarkers ==
    fc_returned =>
        /\ \A i \in DOMAIN new_dependencies :
               OtherMarker(new_dependencies[i]) =>
                   parse_dependency(new_dependencies[i]) = Stated(new_dependencies[i])
        /\ [j \in DOMAIN conflicts |-> MessageWithoutMarker(conflicts[j])]
               \in find_conflicts(new_package_name, new_package_version,
                                  WithoutOtherMarkers(new_dependencies),
                                  local_requirements)

\* C9 witness: a message of a dependency with a Python-version marker.
C9_Witness ==
    /\ fc_returned
    /\ \E j \in DOMAIN conflicts :
          /\ conflicts[j].kind = "dep"
          /\ conflicts[j].new_dep.marker = PythonVersionMarker

\* The manifest without the requirements that a later one of the same
\* normalized name follows.
LastOnly(reqs) ==
    SelectSeq(reqs, LAMBDA r : r = LastLocal(NormalizedName(r.name)))

\* The positions of the manifest's earlier duplicates whose set differs from
\* the last one's.
EarlierDuplicates ==
    { i \in DOMAIN local_requirements :
        /\ \E k \in DOMAIN local_requirements :
               k > i /\ NormalizedName(local_requirements[k].name)
                            = NormalizedName(local_requirements[i].name)
        /\ local_requirements[i].specifier
               # LastLocal(NormalizedName(local_requirements[i].name)).specifier }

\* C10: of several requirements with the same normalized name only the last
\* is used, for the self-conflict check and for the dependency checks; an
\* earlier duplicate produces no message.
C10_LastWriteWins ==
    fc_returned =>
        /\ \A j \in DOMAIN conflicts :
               conflicts[j].local_req
                   = LastLocal(NormalizedName(conflicts[j].local_req.name))
        /\ \A i \in EarlierDuplicates :
               \A j \in DOMAIN conflicts :
                   conflicts[j].local_req # local_requirements[i]
        /\ conflicts \in find_conflicts(new_package_name, new_package_version,
                                        new_dependencies, LastOnly(local_requirements))

\* C10 witness: nothing is reported although an earlier duplicate alone would
\* give a message.
C10_Witness ==
    /\ fc_returned
    /\ conflicts = <<>>
    /\ \E i \in EarlierDuplicates :
          <<>> \notin find_conflicts(new_package_name, new_package_version,
                                     new_dependencies, << local_requirements[i] >>)

\* No version of the probe set satisfies both the dependency's set and the
\* set of the manifest's requirement (both non-empty).
NoCommonProbe(dep) ==
    LET A == dep.specifier
        B == LastLocal(NormalizedName(dep.name)).specifier
    IN  /\ A # {} /\ B # {}
        /\ ~\E t \in ProbeSet(A, B) : SatisfiesBoth(t, A, B)

RECURSIVE FailingMessages(_)
\* The messages of the checked dependencies without a common probe, from
\* position i on, in input order.
FailingMessages(i) ==
    IF i > Len(new_dependencies) THEN <<>>
    ELSE IF i \in CheckedDependencies /\ NoCommonProbe(new_dependencies[i])
    THEN << MessageOf(new_dependencies[i]) >> \o FailingMessages(i + 1)
    ELSE FailingMessages(i + 1)

\* C12: when the new package's own version is not a valid version,
\* find_conflicts returns (it does not raise), emits no self-conflict message
\* and reports the conflicts of the declared dependencies as usual.
C12_InvalidOwnVersion ==
    (fc_returned /\ ~is_valid_version(new_package_version)) =>
        /\ \A j \in DOMAIN conflicts : conflicts[j].kind = "dep"
        /\ conflicts = FailingMessages(1)

\* C12 witness: the version is invalid, the manifest constrains the package
\* itself, and a dependency conflict is reported.
C12_Witness ==
    /\ fc_returned
    /\ ~is_valid_version(new_package_version)
    /\ LocalPositions(NormalizedName(new_package_name)) # {}
    /\ LastLocal(NormalizedName(new_package_name)).specifier # {}
    /\ conflicts # <<>>

---------------------------------------------------------------------------
(* Invalid probes *)

\* The version literals of the two sets that do not parse as versions.
InvalidLiterals(A, B) ==
    { t \in { s.version : s \in A \cup B } : ~is_valid_version(t) }

\* C13: a version literal that does not parse as a version never makes the
\* checker raise: the call returns None or a conflict, the invalid probe is
\* in the list sorted as 0.0.0 (nothing greater than 0.0.0 comes before
\* it), and the verdict is None exactly when a valid probe satisfies both.
C13_InvalidProbe ==
    (Returned /\ spec1 # {} /\ spec2 # {} /\ InvalidLiterals(spec1, spec2) # {}) =>
        /\ verdict \in {"None", "conflict"}
        /\ \A t \in InvalidLiterals(spec1, spec2) :
               \E i \in DOMAIN test_versions :
                   /\ test_versions[i] = t
                   /\ \A j \in 1..(i - 1) :
                          \/ ~is_valid_version(test_versions[j])
                          \/ ~VersionLess(Version(Dotted("0", "0", "0")),
                                          Version(test_versions[j]))
        /\ verdict = "None" <=>
               \E t \in ProbeSet(spec1, spec2) \ InvalidLiterals(spec1, spec2) :
                   SatisfiesBoth(t, spec1, spec2)

\* C13 witness: an invalid probe stands first in the list and was passed
\* over; a later probe decided the verdict.
C13_Witness ==
    /\ verdict = "None"
    /\ spec1 # {} /\ spec2 # {}
    /\ test_versions # <<>>
    /\ test_versions[1] \in InvalidLiterals(spec1, spec2)
    /\ tested > 1

---------------------------------------------------------------------------
(* find_conflicts as a function of its arguments *)

---------------------------------------------------------------------------
(* health.py: calculate_health_status *)

\* Largest number of days since the last commit or release.
MaxDays == 366

\* An Optional[int] that is present.
SomeDays(n) == [present |-> TRUE, days |-> n]

\* The numbers of days: a date one day in the future up to MaxDays ago.
Days == (-1)..MaxDays

\* Mutant: the test for GitHub data is a truth test, 0 days counts as absent.
calculate_health_status_ZeroIsNone(commit, release) ==
    IF commit.present /\ commit.days # 0
    THEN IF commit.days < 90 THEN <<"Active", "Active & Healthy">>
         ELSE IF commit.days < 180 THEN <<"Slow", "Moderately Active">>
         ELSE <<"Zombie", "Low Activity - Consider Alternatives">>
    ELSE IF release < 180 THEN <<"Active", "Active & Healthy">>
    ELSE IF release < 365 THEN <<"Slow", "Moderately Active">>
    ELSE <<"Zombie", "Low Activity - Consider Alternatives">>

\* calculate_health_status(days_since_commit, days_since_release)
calculate_health_status(commit, release) ==
    IF commit.present
    THEN IF commit.days < 90 THEN <<"Active", "Active & Healthy">>
         ELSE IF commit.days < 180 THEN <<"Slow", "Moderately Active">>
         ELSE <<"Zombie", "Low Activity - Consider Alternatives">>
    ELSE IF release < 180 THEN <<"Active", "Active & Healthy">>
    ELSE IF release < 365 THEN <<"Slow", "Moderately Active">>
    ELSE <<"Zombie", "Low Activity - Consider Alternatives">>

(* Specification of calculate_health_status: one call on any input *)

InitHealth ==
    /\ days_since_commit \in { NoDays } \cup { SomeDays(n) : n \in Days }
    /\ days_since_release \in Days
    /\ health = <<"", "">>
    /\ ReportIdle /\ CompareIdle
    /\ CheckerIdle /\ FindIdle /\ FileIdle /\ CliIdle /\ AuditIdle

\* The call calculate_health_status(days_since_commit, days_since_release).
CalculateHealthStatus ==
    /\ health = <<"", "">>
    /\ health' = calculate_health_status(days_since_commit, days_since_release)
    /\ UNCHANGED <<days_since_commit, days_since_release, report_vars, compare_vars>>
    /\ UNCHANGED <<checker_vars, find_vars, file_vars, cli_vars, audit_vars>>

NextHealth == CalculateHealthStatus

SpecHealth == InitHealth /\ [][NextHealth]_vars

(* Properties of calculate_health_status *)

\* The fixed-threshold policy: the status for a number of days and the two
\* thresholds.
PolicyStatus(days, slow_from, zombie_from) ==
    IF days < slow_from THEN "Active"
    ELSE IF days < zombie_from THEN "Slow"
    ELSE "Zombie"

\* The recommendation text of a status.
RecommendationOf(status) ==
    CASE status = "Active" -> "Active & Healthy"
      [] status = "Slow" -> "Moderately Active"
      [] status = "Zombie" -> "Low Activity - Consider Alternatives"

\* C16: with days_since_commit present (0 included) the status is decided
\* by it alone (<90 Active, 90..179 Slow, >=180 Zombie); with it absent the
\* status is decided by days_since_release (<180 Active, 180..364 Slow,
\* >=365 Zombie); the recommendation is the text of the status.
C16_Thresholds ==
    health # <<"", "">> =>
        /\ health[1] \in {"Active", "Slow", "Zombie"}
        /\ days_since_commit.present =>
               health[1] = PolicyStatus(days_since_commit.days, 90, 180)
        /\ ~days_since_commit.present =>
               health[1] = PolicyStatus(days_since_release, 180, 365)
        /\ health[2] = RecommendationOf(health[1])

\* C16 witness: a commit today and a release a year ago give Active.
C16_Witness ==
    /\ health[1] = "Active"
    /\ days_since_commit = SomeDays(0)
    /\ days_since_release >= 365

---------------------------------------------------------------------------
(* health.py: check_health *)

\* The answer of fetch_pypi_info, as check_health reads it: the latest
\* version, the days from its release date to now, and whether
\* extract_github_repo finds a repository in it.
PyPIData(version, days, repo) ==
    [ok |-> TRUE, message |-> "", version |-> version, days |-> days, repo |-> repo]

\* An exception leaves check_health: the text str(e).
RaisedError(message) == [NoReport EXCEPT !.kind = "raised", !.message = message]

\* Mutant: a failure after the fetch leaves github_info set.
GitHubPart_SetBeforeParse(pypi, gh) ==
    IF ~pypi.repo
    THEN [github |-> FALSE, stars |-> 0, days_since_commit |-> NoDays]
    ELSE IF gh.kind = "ok"
    THEN [github |-> TRUE, stars |-> gh.stars, days_since_commit |-> SomeDays(gh.days)]
    ELSE [github |-> gh.kind # "error", stars |-> 0, days_since_commit |-> NoDays]

\* The block "Try to fetch GitHub data": github_info (as present or None,
\* with its stars) and days_since_commit; any exception of the fetch, of the
\* parsing of pushed_at or of GitHubInfo(...) leaves both None.
GitHubPart(pypi, gh) ==
    IF ~pypi.repo
    THEN [github |-> FALSE, stars |-> 0, days_since_commit |-> NoDays]
    ELSE IF gh.kind = "ok"
    THEN [github |-> TRUE, stars |-> gh.stars, days_since_commit |-> SomeDays(gh.days)]
    ELSE [github |-> FALSE, stars |-> 0, days_since_commit |-> NoDays]

\* HealthReport(...): the fields days_since_commit and days_since_release
\* are validated as ge=0, and the model raises ValidationError otherwise.
HealthReport(version, part, status, release) ==
    IF release < 0 \/ (part.days_since_commit.present /\ part.days_since_commit.days < 0)
    THEN RaisedError("validation error for HealthReport")
    ELSE [kind |-> "report", message |-> "", version |-> version,
          github |-> part.github, stars |-> part.stars,
          health_status |-> status[1], recommendation |-> status[2],
          days_since_commit |-> part.days_since_commit,
          days_since_release |-> release]

\* check_health(package_name), given the answers of PyPI and GitHub: the
\* report returned, or the exception raised.
check_health(pypi, gh) ==
    IF ~pypi.ok THEN RaisedError(pypi.message)
    ELSE LET part == GitHubPart(pypi, gh)
         IN  HealthReport(pypi.version, part,
                          calculate_health_status(part.days_since_commit, pypi.days),
                          pypi.days)

(* Specification of check_health: one call, for any answers of the servers *)

\* The numbers of days the answers are drawn from: around each threshold.
SampleDays == { d \in Days : d \in {-1, 0, 89, 90, 179, 180, 364, 365} }

\* The texts of the exceptions of a fetch: a timeout of httpx has an empty
\* text, a status error has one.
ErrorTexts == { "", "404 Not Found" }

PyPIAnswers ==
    { PyPIError(m) : m \in ErrorTexts }
        \cup { PyPIData(v, d, r) : v \in { V101, V100 }, d \in SampleDays, r \in BOOLEAN }

GitHubAnswers ==
    { GitHubData(k, 0, 0) : k \in { "error", "no_pushed_at", "bad_counts" } }
        \cup { GitHubData("ok", d, n) : d \in SampleDays, n \in { 0, 2000 } }

InitCheckHealth ==
    /\ command = [name |-> "health", package_name |-> NameD, force |-> FALSE]
    /\ pc = "start"
    /\ exit_code = -1
    /\ output = <<>>
    /\ effects = <<>>
    /\ client = "none"
    /\ pypi_data \in PyPIAnswers
    /\ github_data \in GitHubAnswers
    /\ report = NoReport
    /\ days_since_commit = NoDays
    /\ days_since_release = 0
    /\ health = <<"", "">>
    /\ CompareIdle
    /\ CheckerIdle /\ FindIdle /\ FileIdle /\ AuditIdle

\* `async with APIClient() as client`: __aenter__ makes the httpx client.
ClientEnter ==
    /\ command.name = "health" /\ pc = "start"
    /\ client' = "open"
    /\ pc' = "entered"
    /\ UNCHANGED <<pypi_data, github_data, report, days_since_commit,
                   days_since_release, health>>
    /\ UNCHANGED <<command, exit_code, output, effects, checker_vars, find_vars,
                   file_vars, audit_vars, compare_vars>>

\* fetch_pypi_info and the parsing of its answer; an exception leaves the
\* `async with`, so __aexit__ closes the client, and leaves check_health.
FetchPyPIInfo ==
    /\ command.name = "health" /\ pc = "entered"
    /\ IF pypi_data.ok
       THEN /\ pc' = "pypi"
            /\ UNCHANGED <<client, report>>
       ELSE /\ pc' = "done"
            /\ client' = "closed"
            /\ report' = RaisedError(pypi_data.message)
    /\ UNCHANGED <<pypi_data, github_data, days_since_commit, days_since_release, health>>
    /\ UNCHANGED <<command, exit_code, output, effects, checker_vars, find_vars,
                   file_vars, audit_vars, compare_vars>>

\* The block "Try to fetch GitHub data".
FetchGitHubInfo ==
    /\ command.name = "health" /\ pc = "pypi"
    /\ days_since_commit' = GitHubPart(pypi_data, github_data).days_since_commit
    /\ pc' = "github"
    /\ UNCHANGED <<client, pypi_data, github_data, report, days_since_release, health>>
    /\ UNCHANGED <<command, exit_code, output, effects, checker_vars, find_vars,
                   file_vars, audit_vars, compare_vars>>

\* The end of the `async with`: __aexit__ closes the client.
ClientExit ==
    /\ command.name = "health" /\ pc = "github"
    /\ client' = IF client = "open" THEN "closed" ELSE client
    /\ pc' = "exited"
    /\ UNCHANGED <<pypi_data, github_data, report, days_since_commit,
                   days_since_release, health>>
    /\ UNCHANGED <<command, exit_code, output, effects, checker_vars, find_vars,
                   file_vars, audit_vars, compare_vars>>

\* days_since_release, calculate_health_status and the HealthReport.
ReturnReport ==
    /\ command.name = "health" /\ pc = "exited"
    /\ days_since_release' = pypi_data.days
    /\ health' = calculate_health_status(days_since_commit, pypi_data.days)
    /\ report' = HealthReport(pypi_data.version, GitHubPart(pypi_data, github_data),
                              health', pypi_data.days)
    /\ pc' = "done"
    /\ UNCHANGED <<client, pypi_data, github_data, days_since_commit>>
    /\ UNCHANGED <<command, exit_code, output, effects, checker_vars, find_vars,
                   file_vars, audit_vars, compare_vars>>

NextCheckHealth ==
    \/ ClientEnter
    \/ FetchPyPIInfo
    \/ FetchGitHubInfo
    \/ ClientExit
    \/ ReturnReport

SpecCheckHealth == InitCheckHealth /\ [][NextCheckHealth]_vars

(* Properties of check_health *)

\* The GitHub part failed: a repository was found and the fetch, or the
\* parsing of its answer, raised.
GitHubFailed == pypi_data.ok /\ pypi_data.repo /\ github_data.kind # "ok"

---------------------------------------------------------------------------
(* compare.py: _determine_overall_winner *)

\* health_rank.get(status, 0)
HealthRank(status) ==
    CASE status = "Active" -> 3
      [] status = "Slow" -> 2
      [] status = "Zombie" -> 1
      [] OTHER -> 0

\* `x and ...` of an Optional[int]: None and 0 are false.
TruthyDays(days) == days.present /\ days.days # 0

\* The score of a package, in thousandths: 10 for each rank of the health
\* status, min(stars / 1000, 10) with GitHub data, 5 for a release less than
\* 90 days ago, 5 for a commit less than 90 days ago.
Score(r) ==
    HealthRank(r.health_status) * 10000
        + (IF r.github THEN (IF r.stars < 10000 THEN r.stars ELSE 10000) ELSE 0)
        + (IF r.days_since_release < 90 THEN 5000 ELSE 0)
        + (IF r.github /\ TruthyDays(r.days_since_commit) /\ r.days_since_commit.days < 90
           THEN 5000 ELSE 0)

\* The text returned for equal scores.
TieText == << "Tie - Both are good choices!" >>

\* _determine_overall_winner(result)
determine_overall_winner(p1, p2) ==
    IF Score(p1.report) > Score(p2.report) THEN p1.name
    ELSE IF Score(p2.report) > Score(p1.report) THEN p2.name
    ELSE TieText

(* Specification of _determine_overall_winner: one call on any two reports *)

\* The reports check_health returns for a package: released 0 to 365 days
\* ago, without GitHub data or with a last push 0 to 180 days ago and up to
\* 12000 stars.
ComparedReports ==
    { check_health(PyPIData(V101, d, gh.kind = "ok"), gh) :
        d \in { 0, 89, 90, 365 },
        gh \in { GitHubData("error", 0, 0) }
                 \cup { GitHubData("ok", c, n) : c \in { 0, 1, 89, 90, 180 },
                                                n \in { 0, 2000, 12000 } } }

InitCompare ==
    /\ command = [name |-> "compare", package_name |-> <<>>, force |-> FALSE]
    /\ pc = "start"
    /\ exit_code = -1
    /\ output = <<>>
    /\ effects = <<>>
    /\ package1 \in { [name |-> NameD, report |-> r] : r \in ComparedReports }
    /\ package2 \in { [name |-> NameAB, report |-> r] : r \in ComparedReports }
    /\ overall_winner = <<>>
    /\ days_since_commit = NoDays
    /\ days_since_release = 0
    /\ health = <<"", "">>
    /\ ReportIdle
    /\ CheckerIdle /\ FindIdle /\ FileIdle /\ AuditIdle

\* The call _determine_overall_winner(result).
DetermineOverallWinner ==
    /\ command.name = "compare" /\ pc = "start"
    /\ overall_winner' = determine_overall_winner(package1, package2)
    /\ pc' = "done"
    /\ UNCHANGED <<package1, package2, days_since_commit, days_since_release, health,
                   report_vars>>
    /\ UNCHANGED <<command, exit_code, output, effects, checker_vars, find_vars,
                   file_vars, audit_vars>>

NextCompare == DetermineOverallWinner

SpecCompare == InitCompare /\ [][NextCompare]_vars

(* Properties of _determine_overall_winner *)

\* The score as the scoring rules state it: the bonus for a recent commit
\* goes to every package with GitHub data whose last commit is 0 to 89 days
\* ago.
StatedScore(r) ==
    (CASE r.health_status = "Active" -> 30000
       [] r.health_status = "Slow" -> 20000
       [] r.health_status = "Zombie" -> 10000)
        + (IF r.github THEN (IF r.stars < 10000 THEN r.stars ELSE 10000) ELSE 0)
        + (IF r.days_since_release < 90 THEN 5000 ELSE 0)
        + (IF /\ r.github /\ r.days_since_commit.present
              /\ r.days_since_commit.days >= 0 /\ r.days_since_commit.days < 90
           THEN 5000 ELSE 0)

\* C28: the winner is the package with the strictly larger score, the score
\* having the 5-point bonus for every package with GitHub data and a last
\* commit 0 to 89 days ago; equal scores give the tie text; with the two
\* packages exchanged the same package wins (or it is again a tie).
C28_RecentCommitBonus ==
    (command.name = "compare" /\ pc = "done") =>
        /\ StatedScore(package1.report) > StatedScore(package2.report)
               => overall_winner = package1.name
        /\ StatedScore(package2.report) > StatedScore(package1.report)
               => overall_winner = package2.name
        /\ StatedScore(package1.report) = StatedScore(package2.report)
               => overall_winner = TieText
        /\ determine_overall_winner(package2, package1) = overall_winner

---------------------------------------------------------------------------
(* resolver.py: get_local_requirements and append_to_requirements *)

\* The text of a line is modelled like a requires_dist string: the text of a
\* requirement, or a text Requirement() rejects (its characters are kept in
\* the name field).  The empty string and a comment are texts it rejects.
EmptyText == MalformedString(<<>>)

CommentText == MalformedString(<<"#", "c">>)

\* A line of the file: its text, with or without whitespace around it.
Line(pad, text) == [pad |-> pad, text |-> text]

\* line.strip()
strip(line) == line.text

\* text.startswith('#')
StartsWithHash(text) == ~text.wellformed /\ text.name # <<>> /\ text.name[1] = "#"

\* The failure of Requirement(): raise InvalidRequirement.
InvalidRequirement == [name |-> <<>>, specifier |-> {}, marker |-> <<"InvalidRequirement">>]

\* Requirement(line): the parsed requirement, or InvalidRequirement.
ParseRequirement(text) ==
    IF text.wellformed THEN Requirement(text.name, text.specifier, text.marker)
    ELSE InvalidRequirement

RECURSIVE ParseLines_StopAtInvalid(_, _)
\* Mutant: an invalid line ends the loop.
ParseLines_StopAtInvalid(lines, line_num) ==
    IF line_num > Len(lines) THEN [requirements |-> <<>>, warnings |-> <<>>]
    ELSE LET line == strip(lines[line_num])
             rest == ParseLines_StopAtInvalid(lines, line_num + 1)
         IN  IF line = EmptyText \/ StartsWithHash(line) THEN rest
             ELSE IF ParseRequirement(line) # InvalidRequirement
             THEN [requirements |-> << ParseRequirement(line) >> \o rest.requirements,
                   warnings     |-> rest.warnings]
             ELSE [requirements |-> <<>>, warnings |-> << line_num >>]

RECURSIVE ParseLines(_, _)
\* The loop of get_local_requirements from line line_num on: the
\* requirements appended and the line numbers warned about.
ParseLines(lines, line_num) ==
    IF line_num > Len(lines) THEN [requirements |-> <<>>, warnings |-> <<>>]
    ELSE LET line == strip(lines[line_num])
             rest == ParseLines(lines, line_num + 1)
         IN  IF line = EmptyText \/ StartsWithHash(line) THEN rest
             ELSE IF ParseRequirement(line) # InvalidRequirement
             THEN [requirements |-> << ParseRequirement(line) >> \o rest.requirements,
                   warnings     |-> rest.warnings]
             ELSE [requirements |-> rest.requirements,
                   warnings     |-> << line_num >> \o rest.warnings]

\* get_local_requirements(filepath): the list returned and the warnings logged.
get_local_requirements(file) ==
    IF ~file.exists THEN [requirements |-> <<>>, warnings |-> <<>>]
    ELSE ParseLines(file.lines, 1)

\* `if version:` of an Optional[str].
Truthy(version) == version.present /\ version.text # <<>>

\* The text f"{package_name}=={version}" (or package_name alone), as
\* Requirement() will read it: "==" needs a version or a prefix "V.*".
FormatEntry(package_name, version) ==
    IF ~Truthy(version) THEN DependencyString(package_name, {}, <<>>)
    ELSE IF \/ is_valid_version(version.text)
            \/ /\ IsWildcard(version.text)
               /\ is_valid_version(SubSeq(version.text, 1, Len(version.text) - 2))
    THEN DependencyString(package_name, { Specifier("==", version.text) }, <<>>)
    ELSE MalformedString(package_name \o <<"=", "=">> \o version.text)

\* f.write("\n" + text + "\n") on a file opened for appending: the newline
\* ends an unterminated last line, or else makes an empty line.
Write(file, text) ==
    [exists     |-> TRUE,
     lines      |-> IF file.lines # <<>> /\ ~file.terminated
                    THEN file.lines \o << Line(FALSE, text) >>
                    ELSE file.lines \o << Line(FALSE, EmptyText), Line(FALSE, text) >>,
     terminated |-> TRUE]

\* append_to_requirements(filepath, package_name, version): the value
\* returned and the file after the call.
append_to_requirements(file, package_name, version) ==
    LET existing_reqs   == get_local_requirements(file).requirements
        normalized_name == NormalizedName(package_name)
    IN  IF \E i \in DOMAIN existing_reqs :
               NormalizedName(existing_reqs[i].name) = normalized_name
        THEN [result |-> FALSE, file |-> file]
        ELSE [result |-> TRUE, file |-> Write(file, FormatEntry(package_name, version))]

(* Specification of the manifest functions: calls on any file *)

\* Largest number of lines of the file at the start.
MaxLines == 2

\* Largest number of calls made.
MaxCalls == 2

\* The lines a file is built from: empty and whitespace-only lines, a
\* comment, requirements, and a line Requirement() rejects.
LineChoices ==
    { Line(FALSE, EmptyText),
      Line(TRUE, EmptyText),
      Line(TRUE, CommentText),
      Line(FALSE, DependencyString(NameD, { Specifier("==", V101) }, <<>>)),
      Line(TRUE, DependencyString(NameABUpper, { Specifier("==", V101) }, <<>>)),
      Line(FALSE, DependencyString(NameAB, {}, <<>>)),
      Line(FALSE, MalformedString(<<"d", ">", "=">>)) }

\* The files: none, or lines with the last one ended by a newline or not
\* (an empty last line without newline is no line).
Files(choices, n) ==
    { MissingFile } \cup
    { f \in [exists : { TRUE }, lines : ListsUpTo(choices, n), terminated : BOOLEAN] :
        f.terminated \/ (f.lines # <<>> /\ f.lines[Len(f.lines)] # Line(FALSE, EmptyText)) }

\* The arguments of append_to_requirements.
AppendNames == { NameAB, NameABUpper, NameX }

AppendVersions == { NoVersion, SomeVersion(<<>>), SomeVersion(V101), SomeVersion(BadVersion) }

InitManifest ==
    /\ manifest \in Files(LineChoices, MaxLines)
    /\ requirements = <<>>
    /\ warnings = <<>>
    /\ calls = NoCall
    /\ CheckerIdle /\ FindIdle /\ CliIdle /\ HealthIdle /\ AuditIdle

\* The call get_local_requirements(manifest).
GetLocalRequirements ==
    /\ calls.count < MaxCalls
    /\ LET out == get_local_requirements(manifest)
       IN  /\ requirements' = out.requirements
           /\ warnings' = out.warnings
    /\ calls' = [count |-> calls.count + 1, op |-> "get_local_requirements",
                 package_name |-> <<>>, version |-> NoVersion, result |-> FALSE]
    /\ UNCHANGED manifest
    /\ UNCHANGED <<checker_vars, find_vars, cli_vars, health_vars, audit_vars>>

\* The call append_to_requirements(manifest, package_name, version); the
\* warnings are those of its call of get_local_requirements.
AppendToRequirements ==
    /\ calls.count < MaxCalls
    /\ \E package_name \in AppendNames, version \in AppendVersions :
          LET out == append_to_requirements(manifest, package_name, version)
          IN  /\ manifest' = out.file
              /\ warnings' = get_local_requirements(manifest).warnings
              /\ calls' = [count |-> calls.count + 1, op |-> "append_to_requirements",
                           package_name |-> package_name, version |-> version,
                           result |-> out.result]
    /\ UNCHANGED requirements
    /\ UNCHANGED <<checker_vars, find_vars, cli_vars, health_vars, audit_vars>>

NextManifest == GetLocalRequirements \/ AppendToRequirements

SpecManifest == InitManifest /\ [][NextManifest]_vars

(* Properties of the manifest functions *)

\* A line that, with the whitespace around it removed, is not empty, does
\* not start with "#" and is the text of a requirement.
IsRequirementLine(line) ==
    /\ line.text # EmptyText
    /\ ~(line.text.name # <<>> /\ line.text.name[1] = "#")
    /\ line.text.wellformed

\* A line that is neither empty, nor a comment, nor the text of a requirement.
IsInvalidLine(line) ==
    /\ line.text # EmptyText
    /\ ~(line.text.name # <<>> /\ line.text.name[1] = "#")
    /\ ~line.text.wellformed

\* The requirement lines of the file, in file order, as Requirements.
RequirementsOf(file) ==
    LET kept == SelectSeq(file.lines, IsRequirementLine)
    IN  [k \in DOMAIN kept |->
            Requirement(kept[k].text.name, kept[k].text.specifier, kept[k].text.marker)]

GotRequirements == calls.op = "get_local_requirements"

\* C17: get_local_requirements returns, in file order, one Requirement for
\* each line that after trimming is non-empty, no comment and a valid
\* requirement; it warns exactly about the other non-empty, non-comment
\* lines and goes on after them; a missing file gives an empty list.
C17_ParsedLines ==
    GotRequirements =>
        /\ requirements = RequirementsOf(manifest)
        /\ \A i \in DOMAIN manifest.lines :
               (\E k \in DOMAIN warnings : warnings[k] = i)
                   <=> IsInvalidLine(manifest.lines[i])
        /\ Len(warnings) = Cardinality({ i \in DOMAIN manifest.lines :
                                            IsInvalidLine(manifest.lines[i]) })
        /\ ~manifest.exists => (requirements = <<>> /\ warnings = <<>>)

\* C17 witness: an invalid line is warned about and the requirement on the
\* line after it, written with whitespace around it, is returned.
C17_Witness ==
    /\ GotRequirements
    /\ Len(manifest.lines) >= 2
    /\ IsInvalidLine(manifest.lines[1])
    /\ IsRequirementLine(manifest.lines[2]) /\ manifest.lines[2].pad
    /\ warnings = << 1 >>
    /\ Len(requirements) = 1

\* The characters of the text of a line with at most one specifier.
TextChars(text) ==
    IF text.wellformed /\ text.specifier # {}
    THEN text.name \o str(CHOOSE sp \in text.specifier : TRUE)
    ELSE text.name

\* The characters of the entry for a package: "name==version", or "name".
EntryChars(package_name, version) ==
    IF version.present /\ version.text # <<>>
    THEN package_name \o <<"=", "=">> \o version.text
    ELSE package_name

\* The file has a requirement with the normalized name of the package.
Lists(file, package_name) ==
    \E i \in DOMAIN RequirementsOf(file) :
        NormalizedName(RequirementsOf(file)[i].name) = NormalizedName(package_name)

\* The lines of the file that are not empty.
Entries(file) == SelectSeq(file.lines, LAMBDA line : line.text # EmptyText)

\* No two requirements of the file have the same normalized name.
NoDuplicateNames(file) ==
    \A i, k \in DOMAIN RequirementsOf(file) :
        NormalizedName(RequirementsOf(file)[i].name)
            = NormalizedName(RequirementsOf(file)[k].name) => i = k

\* A step that is a call of append_to_requirements.
AppendStep ==
    /\ calls'.count = calls.count + 1
    /\ calls'.op = "append_to_requirements"

\* The call returns False and leaves the file as it is when the package is
\* listed; otherwise it returns True and adds one entry at the end.
AppendsOnce ==
    AppendStep =>
        IF Lists(manifest, calls'.package_name)
        THEN calls'.result = FALSE /\ manifest' = manifest
        ELSE /\ calls'.result = TRUE
             /\ Entries(manifest') = Entries(manifest) \o
                    << Line(FALSE, manifest'.lines[Len(manifest'.lines)].text) >>
             /\ TextChars(manifest'.lines[Len(manifest'.lines)].text)
                    = EntryChars(calls'.package_name, calls'.version)
             /\ SubSeq(manifest'.lines, 1, Len(manifest.lines)) = manifest.lines

\* A file without duplicate names has none after the call.
KeepsNamesUnique ==
    (AppendStep /\ NoDuplicateNames(manifest)) => NoDuplicateNames(manifest')

\* A call that repeats the call before it changes nothing.
RepeatIsNoOp ==
    (/\ AppendStep
     /\ calls.op = "append_to_requirements"
     /\ calls.package_name = calls'.package_name
     /\ calls.version = calls'.version) =>
        (calls'.result = FALSE /\ manifest' = manifest)

\* C19: append_to_requirements returns False and leaves the file unchanged
\* when the file lists the normalized name; otherwise it appends exactly one
\* entry ("name==version", or "name") and returns True; a file without
\* duplicate names stays without; a repeated call with the same package is
\* a no-op.
C19_AvoidsDuplicates == [][AppendsOnce /\ KeepsNamesUnique /\ RepeatIsNoOp]_vars

\* The parts of C19 that do not depend on the entry being read back.
C19_AppendsOnce == [][AppendsOnce /\ KeepsNamesUnique]_vars

---------------------------------------------------------------------------
(* main.py: the check-add and remove commands *)

\* typer.Exit is click's Exit, a RuntimeError: raised inside the try block
\* of a command it is caught by `except Exception`, which prints the error
\* and raises typer.Exit(code=1).  The exit code of the process after
\* `raise typer.Exit(code)` inside the try block:
ExitInsideTry(code) == 1

\* The lines printed on that way.
PrintedInsideTry(lines) == lines \o << "Error" >>

\* The dependency lists PyPI returns for the new package.
CliDependencyLists ==
    { <<>>,
      << DependencyString(NameD, { Specifier(">=", V101) }, <<>>) >>,
      << DependencyString(NameDUpper, { Specifier("<=", V100) }, <<>>),
         DependencyString(NameD, { Specifier(">=", V101) }, <<>>) >> }

\* The versions PyPI returns for it.
CliVersions == { V101, V100, BadVersion }

\* The lines the manifest of a command is built from.
CliLineChoices ==
    { Line(TRUE, CommentText),
      Line(FALSE, DependencyString(NameD, { Specifier("==", V101) }, <<>>)),
      Line(TRUE, DependencyString(NameABUpper, { Specifier("==", V101) }, <<>>)),
      Line(FALSE, DependencyString(NameAB, {}, <<>>)),
      Line(FALSE, MalformedString(<<"d", ">", "=">>)) }

\* The commands: check-add NAME, remove NAME [--force].
Commands ==
    { [name |-> "check-add", package_name |-> n, force |-> FALSE] : n \in { NameAB, NameX } }
        \cup
    { [name |-> "remove", package_name |-> n, force |-> f] :
        n \in { NameAB, NameDUpper }, f \in BOOLEAN }

InitCli ==
    /\ manifest \in Files(CliLineChoices, MaxLines)
    /\ command \in Commands
    /\ pc = "start"
    /\ exit_code = -1
    /\ output = <<>>
    /\ effects = <<>>
    /\ requirements = <<>>
    /\ warnings = <<>>
    /\ calls = NoCall
    /\ new_package_name = command.package_name
    /\ new_package_version = <<>>
    /\ new_dependencies = <<>>
    /\ local_requirements = <<>>
    /\ conflicts = <<>>
    /\ fc_returned = FALSE
    /\ CheckerIdle /\ HealthIdle /\ AuditIdle

\* check_add, steps 1 and 2: asyncio.run(_check_add_async(...)) returns the
\* report, the version and the dependencies, or raises.
CheckAddFetch ==
    /\ command.name = "check-add" /\ pc = "start"
    /\ \/ /\ new_package_version' \in CliVersions
          /\ new_dependencies' \in CliDependencyLists
          /\ health' \in { calculate_health_status(NoDays, days) : days \in {0, 180, 365} }
          /\ pc' = "fetched"
          /\ UNCHANGED <<exit_code, output>>
       \/ /\ pc' = "done"
          /\ exit_code' = 1
          /\ output' = output \o << "Error" >>
          /\ UNCHANGED <<new_package_version, new_dependencies, health>>
    /\ UNCHANGED <<new_package_name, local_requirements, conflicts, fc_returned>>
    /\ UNCHANGED <<command, effects, file_vars, checker_vars, audit_vars,
                   days_since_commit, days_since_release, report_vars, compare_vars>>

\* The question typer.confirm asks in step 3.
ConfirmPrompt == "Do you still want to proceed?"

\* check_add, step 3: the confirmation when the health is Zombie or Slow.
CheckAddConfirm ==
    /\ command.name = "check-add" /\ pc = "fetched"
    /\ IF health[1] \in {"Zombie", "Slow"}
       THEN \E proceed \in BOOLEAN :
               IF proceed
               THEN /\ pc' = "confirmed"
                    /\ output' = output \o << ConfirmPrompt >>
                    /\ UNCHANGED exit_code
               ELSE /\ pc' = "done"
                    /\ exit_code' = ExitInsideTry(0)
                    /\ output' = output \o PrintedInsideTry(<< ConfirmPrompt,
                                                                "Operation cancelled." >>)
       ELSE pc' = "confirmed" /\ UNCHANGED <<exit_code, output>>
    /\ UNCHANGED <<command, effects, find_vars, file_vars, checker_vars,
                   health_vars, audit_vars>>

\* check_add, step 4: local_reqs = get_local_requirements(requirements_file).
CheckAddParse ==
    /\ command.name = "check-add" /\ pc = "confirmed"
    /\ LET out == get_local_requirements(manifest)
       IN  /\ local_requirements' = out.requirements
           /\ warnings' = out.warnings
    /\ pc' = "parsed"
    /\ UNCHANGED <<new_package_name, new_package_version, new_dependencies,
                   conflicts, fc_returned>>
    /\ UNCHANGED <<manifest, requirements, calls, command, exit_code, output, effects,
                   checker_vars, health_vars, audit_vars>>

\* Mutant: the command goes on to add the package whatever find_conflicts
\* returned.
CheckAddFind_IgnoresConflicts ==
    /\ command.name = "check-add" /\ pc = "parsed"
    /\ conflicts' \in find_conflicts(new_package_name, new_package_version,
                                     new_dependencies, local_requirements)
    /\ fc_returned' = TRUE
    /\ pc' = "checked"
    /\ output' = output \o << "No conflicts detected!" >>
    /\ UNCHANGED exit_code
    /\ UNCHANGED <<new_package_name, new_package_version, new_dependencies,
                   local_requirements>>
    /\ UNCHANGED <<command, effects, file_vars, checker_vars, health_vars, audit_vars>>

\* check_add, steps 5 and 6: find_conflicts, then the report of the
\* conflicts and exit, or the message that there are none.
CheckAddFind ==
    /\ command.name = "check-add" /\ pc = "parsed"
    /\ conflicts' \in find_conflicts(new_package_name, new_package_version,
                                     new_dependencies, local_requirements)
    /\ fc_returned' = TRUE
    /\ IF conflicts' # <<>>
       THEN /\ pc' = "done"
            /\ exit_code' = ExitInsideTry(1)
            /\ output' = output \o
                   PrintedInsideTry(<< "Cannot add package due to conflicts." >>)
       ELSE /\ pc' = "checked"
            /\ output' = output \o << "No conflicts detected!" >>
            /\ UNCHANGED exit_code
    /\ UNCHANGED <<new_package_name, new_package_version, new_dependencies,
                   local_requirements>>
    /\ UNCHANGED <<command, effects, file_vars, checker_vars, health_vars, audit_vars>>

\* check_add, step 7: append_to_requirements, its result not looked at, and
\* the message that the package was added.
CheckAddAppend ==
    /\ command.name = "check-add" /\ pc = "checked"
    /\ LET out == append_to_requirements(manifest, command.package_name,
                                         SomeVersion(new_package_version))
       IN  /\ manifest' = out.file
           /\ calls' = [count |-> calls.count + 1, op |-> "append_to_requirements",
                        package_name |-> command.package_name,
                        version |-> SomeVersion(new_package_version),
                        result |-> out.result]
    /\ warnings' = get_local_requirements(manifest).warnings
    /\ effects' = effects \o << "append_to_requirements" >>
    /\ output' = output \o << "Package added to requirements.txt" >>
    /\ pc' = "added"
    /\ UNCHANGED <<requirements, command, exit_code, find_vars, checker_vars,
                   health_vars, audit_vars>>

\* The line f"Installation failed with exit code {return_code}".
InstallationFailed(return_code) ==
    "Installation failed with exit code " \o ToString(return_code)

\* The return codes of the pip process.
ReturnCodes == {0, 1, 2}

\* check_add, step 8: the question whether to install, and pip install.
CheckAddInstall ==
    /\ command.name = "check-add" /\ pc = "added"
    /\ \E install \in BOOLEAN :
          IF install
          THEN /\ effects' = effects \o << "pip install" >>
               /\ \E return_code \in ReturnCodes :
                     IF return_code = 0
                     THEN /\ exit_code' = 0
                          /\ output' = output \o << "Installation completed successfully!" >>
                     ELSE /\ exit_code' = ExitInsideTry(return_code)
                          /\ output' = output \o
                                 PrintedInsideTry(<< InstallationFailed(return_code) >>)
          ELSE /\ exit_code' = 0
               /\ output' = output \o << "Skipped installation." >>
               /\ UNCHANGED effects
    /\ pc' = "done"
    /\ UNCHANGED <<command, find_vars, file_vars, checker_vars, health_vars, audit_vars>>

\* The requirement the loop of remove finds: the first one of the list with
\* the normalized name, or None.
FoundReq(reqs, normalized_name) ==
    LET matches == { i \in DOMAIN reqs : NormalizedName(reqs[i].name) = normalized_name }
    IN  IF matches = {} THEN NoRequirement
        ELSE reqs[CHOOSE i \in matches : \A k \in matches : i <= k]

\* remove: the lookup of the package in the requirements of the file.
RemoveLookup ==
    /\ command.name = "remove" /\ pc = "start"
    /\ LET out == get_local_requirements(manifest)
       IN  /\ requirements' = out.requirements
           /\ warnings' = out.warnings
           /\ IF FoundReq(out.requirements, NormalizedName(command.package_name))
                    = NoRequirement
              THEN /\ pc' = "done"
                   /\ exit_code' = 0
                   /\ output' = output \o << "Package not found" >>
              ELSE /\ pc' = "found"
                   /\ UNCHANGED <<exit_code, output>>
    /\ UNCHANGED <<manifest, calls, command, effects, find_vars, checker_vars,
                   health_vars, audit_vars>>

\* remove: the confirmation, unless --force is given.
RemoveConfirm ==
    /\ command.name = "remove" /\ pc = "found"
    /\ IF ~command.force
       THEN \E confirmed \in BOOLEAN :
               IF confirmed
               THEN /\ pc' = "rewrite"
                    /\ output' = output \o << "Continue?" >>
                    /\ UNCHANGED exit_code
               ELSE /\ pc' = "done"
                    /\ exit_code' = 0
                    /\ output' = output \o << "Continue?", "Cancelled." >>
       ELSE pc' = "rewrite" /\ UNCHANGED <<exit_code, output>>
    /\ UNCHANGED <<command, effects, find_vars, file_vars, checker_vars,
                   health_vars, audit_vars>>

\* The test of the rewriting loop: the line is skipped (not written).
SkipLine(line, normalized_name) ==
    LET line_stripped == strip(line)
    IN  /\ line_stripped # EmptyText /\ ~StartsWithHash(line_stripped)
        /\ ParseRequirement(line_stripped) # InvalidRequirement
        /\ NormalizedName(ParseRequirement(line_stripped).name) = normalized_name

\* Mutant: the loop stops skipping after the first line it skipped.
Rewritten_FirstOnly(file, normalized_name) ==
    LET skipped == { i \in DOMAIN file.lines : SkipLine(file.lines[i], normalized_name) }
        first   == IF skipped = {} THEN 0
                   ELSE CHOOSE i \in skipped : \A k \in skipped : i <= k
        kept    == SubSeq(file.lines, 1, first - 1)
                       \o SubSeq(file.lines, first + 1, Len(file.lines))
    IN  [exists     |-> TRUE,
         lines      |-> IF first = 0 THEN file.lines ELSE kept,
         terminated |-> IF first = 0 THEN file.terminated
                        ELSE IF first = Len(file.lines) THEN TRUE
                        ELSE file.terminated]

\* The file after the rewriting loop of remove: the lines read, without the
\* skipped ones; a last line without newline stays so if it is kept.
Rewritten(file, normalized_name) ==
    LET kept == SelectSeq(file.lines, LAMBDA line : ~SkipLine(line, normalized_name))
    IN  [exists     |-> TRUE,
         lines      |-> kept,
         terminated |-> IF kept = <<>> THEN TRUE
                        ELSE IF SkipLine(file.lines[Len(file.lines)], normalized_name)
                        THEN TRUE
                        ELSE file.terminated]

\* remove: the file is read and written again without the package's lines.
RemoveRewrite ==
    /\ command.name = "remove" /\ pc = "rewrite"
    /\ manifest' = Rewritten(manifest, NormalizedName(command.package_name))
    /\ pc' = "done"
    /\ exit_code' = 0
    /\ output' = output \o << "Removed" >>
    /\ UNCHANGED <<requirements, warnings, calls, command, effects, find_vars,
                   checker_vars, health_vars, audit_vars>>

NextCli ==
    \/ CheckAddFetch
    \/ CheckAddConfirm
    \/ CheckAddParse
    \/ CheckAddFind
    \/ CheckAddAppend
    \/ CheckAddInstall
    \/ RemoveLookup
    \/ RemoveConfirm
    \/ RemoveRewrite

SpecCli == InitCli /\ [][NextCli]_vars

(* Properties of the commands *)

\* A character with its case and the difference between "-" and "_" folded.
FoldChar(c) == IF c \in {"-", "_"} THEN "_" ELSE LowerChar(c)

\* Two names that differ at most in letter case and in "-" versus "_".
SameName(a, b) ==
    /\ Len(a) = Len(b)
    /\ \A i \in 1..Len(a) : FoldChar(a[i]) = FoldChar(b[i])

\* A name, requirements, dependency strings and messages with every name folded.
Folded(name) == [i \in 1..Len(name) |-> FoldChar(name[i])]

FoldedNames(list) == [i \in DOMAIN list |-> [list[i] EXCEPT !.name = Folded(@)]]

FoldedMessages(msgs) ==
    [j \in DOMAIN msgs |->
        [msgs[j] EXCEPT !.new_package_name = Folded(@),
                        !.new_dep.name = Folded(@),
                        !.local_req.name = Folded(@)]]

\* The file has a requirement line for the package, under any spelling.
ListsUnderAnySpelling(file, package_name) ==
    \E i \in DOMAIN file.lines :
        /\ IsRequirementLine(file.lines[i])
        /\ SameName(file.lines[i].text.name, package_name)

\* The steps of the commands.
FindStep == ~fc_returned /\ fc_returned'

CliAppendStep == pc = "checked" /\ pc' = "added"

LookupStep == command.name = "remove" /\ pc = "start" /\ pc' # "start"

RewriteStep == command.name = "remove" /\ pc = "rewrite" /\ pc' = "done"

\* C11: names that differ only in letter case or in "-" versus "_" are the
\* same package at every lookup: find_conflicts returns what it returns for
\* the folded names (local map keys, new package, declared dependencies);
\* append_to_requirements refuses exactly when the file lists the package
\* under any spelling; remove finds the package and deletes its lines under
\* any spelling.
C11_Normalization ==
    [][/\ FindStep =>
              FoldedMessages(conflicts') \in
                  { FoldedMessages(c) :
                      c \in find_conflicts(Folded(new_package_name), new_package_version,
                                           FoldedNames(new_dependencies),
                                           FoldedNames(local_requirements)) }
       /\ CliAppendStep =>
              /\ calls'.result = FALSE <=> ListsUnderAnySpelling(manifest, command.package_name)
              /\ calls'.result = FALSE <=> manifest' = manifest
       /\ LookupStep =>
              (pc' = "found" <=> ListsUnderAnySpelling(manifest, command.package_name))
       /\ RewriteStep =>
              manifest'.lines =
                  SelectSeq(manifest.lines,
                            LAMBDA line : ~(/\ IsRequirementLine(line)
                                            /\ SameName(line.text.name, command.package_name)))
      ]_vars

\* C11 witness: check-add of a-b on a file that lists A_B: find_conflicts ran
\* and append_to_requirements found the package listed.
C11_Witness ==
    /\ command.name = "check-add"
    /\ command.package_name = NameAB
    /\ fc_returned
    /\ calls.op = "append_to_requirements" /\ calls.result = FALSE
    /\ \E i \in DOMAIN manifest.lines : manifest.lines[i].text.name = NameABUpper
    /\ ~\E i \in DOMAIN manifest.lines : manifest.lines[i].text.name = NameAB

\* C15: in check-add, once find_conflicts has returned a non-empty list the
\* command has ended with a non-zero exit code, append_to_requirements was
\* not called, pip install was not started and the step left the manifest
\* as it was; the manifest is changed, and append_to_requirements or pip
\* install run, only after find_conflicts returned an empty list.
C15_NoMutationOnConflict ==
    [][command.name = "check-add" =>
          /\ (fc_returned' /\ conflicts' # <<>>) =>
                 /\ pc' = "done"
                 /\ exit_code' \notin {0, -1}
                 /\ effects' = <<>>
                 /\ manifest' = manifest
          /\ (manifest' # manifest \/ effects' # effects) =>
                 (fc_returned /\ conflicts = <<>>)
      ]_vars

\* C15 witness: check-add ended on a conflict with a manifest of two lines.
C15_Witness ==
    /\ command.name = "check-add"
    /\ fc_returned /\ conflicts # <<>>
    /\ pc = "done" /\ exit_code = 1
    /\ Len(manifest.lines) = 2
    /\ effects = <<>>

\* The command printed the line.
Printed(line) == \E k \in DOMAIN output : output[k] = line

\* The line states "name==version" for the package, under any spelling of
\* its name.
StatesPin(line, package_name, version) ==
    LET chars == TextChars(line.text)
        n     == Len(package_name)
    IN  /\ Len(chars) = n + 2 + Len(version)
        /\ SameName(SubSeq(chars, 1, n), package_name)
        /\ SubSeq(chars, n + 1, Len(chars)) = <<"=", "=">> \o version

\* C18: when check-add prints "Package added to requirements.txt", the
\* manifest has a line "<package_name>==<new_version>" for the package, also
\* when the manifest already listed the package with a constraint the new
\* version satisfies.
C18_AddedIsListed ==
    (command.name = "check-add" /\ Printed("Package added to requirements.txt")) =>
        \E i \in DOMAIN manifest.lines :
            StatesPin(manifest.lines[i], command.package_name, new_package_version)

\* C21: in check-add the confirmation is asked only when the health is
\* Zombie or Slow, and once "Operation cancelled." is printed the command has
\* ended with exit code 0 without find_conflicts, append_to_requirements or
\* pip install having run.
C21_CancelExitsZero ==
    command.name = "check-add" =>
        /\ Printed(ConfirmPrompt) => health[1] \in {"Zombie", "Slow"}
        /\ Printed("Operation cancelled.") =>
               /\ pc = "done"
               /\ exit_code = 0
               /\ ~fc_returned
               /\ effects = <<>>
               /\ calls = NoCall

\* C22: in check-add, when pip ended with a non-zero return code r the
\* command ends with exit code r, and when pip returned 0 it ends with 0.
C22_PipCodePropagated ==
    (command.name = "check-add" /\ pc = "done") =>
        /\ \A r \in ReturnCodes \ {0} :
               Printed(InstallationFailed(r)) => exit_code = r
        /\ Printed("Installation completed successfully!") => exit_code = 0

\* The line is a requirement of the package, under its normalized name.
IsLineOf(line, package_name) ==
    /\ IsRequirementLine(line)
    /\ NormalizedName(line.text.name) = NormalizedName(package_name)

\* C23: the rewrite of remove, reached only with --force or after the
\* confirmation, leaves no requirement of the package in the manifest and
\* keeps every other line (comment, empty, unparsable, other package) as it
\* was and in order; no other step of remove changes the manifest, and a
\* run that ends with "not found" or "Cancelled." has not changed it.
C23_RemoveExact ==
    [][command.name = "remove" =>
          /\ RewriteStep =>
                 /\ ~Lists(manifest', command.package_name)
                 /\ manifest'.lines =
                        SelectSeq(manifest.lines,
                                  LAMBDA line : ~IsLineOf(line, command.package_name))
                 /\ \A i \in DOMAIN manifest.lines :
                        ~IsLineOf(manifest.lines[i], command.package_name) =>
                            \E k \in DOMAIN manifest'.lines :
                                manifest'.lines[k] = manifest.lines[i]
                 /\ command.force \/ Printed("Continue?")
                 /\ Lists(manifest, command.package_name)
          /\ manifest' # manifest => RewriteStep
          /\ (\E k \in DOMAIN output' :
                  output'[k] \in { "Package not found", "Cancelled." }) =>
                 (manifest' = manifest /\ pc' = "done")
      ]_vars

\* C23 witness: remove ended after deleting two lines of the package written
\* in different spellings.
C23_Witness ==
    /\ command.name = "remove" /\ pc = "done" /\ Printed("Removed")
    /\ command.package_name = NameAB
    /\ manifest.exists /\ manifest.lines = <<>>
    /\ Len(requirements) = 2
    /\ requirements[1].name # requirements[2].name

---------------------------------------------------------------------------
(* audit.py: audit_requirements and its semaphore *)

\* Largest number of requirements audited.
MaxAudited == 7

\* The default of the parameter max_concurrent.
DefaultMaxConcurrent == 5

\* The values of max_concurrent.
Limits == {0, 1, 2, DefaultMaxConcurrent}

\* The requirement every line of the audited manifest states.
AuditedRequirement == Requirement(NameD, { Specifier("==", V101) }, <<>>)

\* The value None of the Optional[str] error, and a text.
NoError == [present |-> FALSE, text |-> ""]

SomeError(text) == [present |-> TRUE, text |-> text]

\* AuditResult(package_name, current_version, health_report, latest_version,
\* is_outdated, error); a health_report of None is NoReport.
AuditResult(package_name, current_version, health_report, latest_version, is_outdated, error) ==
    [package_name |-> package_name, current_version |-> current_version,
     health_report |-> health_report, latest_version |-> latest_version,
     is_outdated |-> is_outdated, error |-> error]

\* The coroutine has no result yet.
NoResult == AuditResult(<<>>, NoVersion, NoReport, NoVersion, FALSE, NoError)

\* The version extracted from the requirement: the text after "==" of a
\* specifier that starts with "==", or None.
CurrentVersion(req) ==
    LET pins == { sp \in req.specifier : SubSeq(str(sp), 1, 2) = <<"=", "=">> }
    IN  IF pins = {} THEN NoVersion
        ELSE LET spec_str == str(CHOOSE sp \in pins : TRUE)
             IN  SomeVersion(SubSeq(spec_str, 3, Len(spec_str)))

\* audit_package(package_name, current_version), given the answers of the
\* servers for the package: every exception of check_health is caught and
\* becomes a result with error=str(e).
audit_package(package_name, current_version, answer) ==
    LET health_report  == check_health(answer.pypi, answer.github)
        latest_version == SomeVersion(health_report.version)
        is_outdated    ==
            IF Truthy(current_version) /\ Truthy(latest_version)
            THEN IF is_valid_version(current_version.text)
                    /\ is_valid_version(latest_version.text)
                 THEN VersionLess(Version(current_version.text),
                                  Version(latest_version.text))
                 ELSE FALSE
            ELSE FALSE
    IN  IF health_report.kind = "raised"
        THEN AuditResult(package_name, current_version, NoReport, NoVersion, FALSE,
                         SomeError(health_report.message))
        ELSE AuditResult(package_name, current_version, health_report,
                         latest_version, is_outdated, NoError)

\* `if result.error:` of an Optional[str].
TruthyText(error) == error.present /\ error.text # ""

RECURSIVE Summarize(_, _, _)
\* The loop "Calculate summary statistics" from result i on (total_stars and
\* total_open_issues are left out).
Summarize(rs, i, sm) ==
    IF i > Len(rs) THEN sm
    ELSE LET result == rs[i]
             status == result.health_report.health_status
             counted ==
                 IF result.health_report.kind # "report" THEN sm
                 ELSE LET by_status ==
                              IF status = "Active"
                              THEN [sm EXCEPT !.healthy_packages = @ + 1]
                              ELSE IF status = "Slow"
                              THEN [sm EXCEPT !.slow_packages = @ + 1]
                              ELSE IF status = "Zombie"
                              THEN [sm EXCEPT !.zombie_packages = @ + 1]
                              ELSE sm
                      IN  IF result.health_report.github
                          THEN [by_status EXCEPT !.packages_with_github = @ + 1]
                          ELSE by_status
         IN  IF TruthyText(result.error)
             THEN Summarize(rs, i + 1, [sm EXCEPT !.error_packages = @ + 1])
             ELSE Summarize(rs, i + 1,
                            IF result.is_outdated
                            THEN [counted EXCEPT !.outdated_packages = @ + 1]
                            ELSE counted)

\* The tasks at a position.
TasksAt(ts, pos) == { i \in DOMAIN ts : ts[i].pos = pos }

\* Semaphore.locked(): no permit is left, or a task waits.
Locked(sem) == sem.value = 0 \/ sem.waiters # <<>>

RECURSIVE WakeUpNext(_, _)
\* Semaphore._wake_up_next, repeated while permits are left: the first
\* waiter that is not yet woken takes a permit and is woken.
WakeUpNext(sem, ts) ==
    LET sleeping == { k \in DOMAIN sem.waiters : ts[sem.waiters[k]].pos = "waiting" }
    IN  IF sem.value = 0 \/ sleeping = {} THEN [semaphore |-> sem, tasks |-> ts]
        ELSE LET k == CHOOSE k \in sleeping : \A m \in sleeping : k <= m
             IN  WakeUpNext([sem EXCEPT !.value = @ - 1],
                            [ts EXCEPT ![sem.waiters[k]].pos = "woken"])

\* The package names of the audited manifests.
AuditNames == { NameD, NameAB }

\* The answers of PyPI and GitHub for a package: a timeout (its exception
\* has an empty text), a 404, and data that give each status with and
\* without GitHub data.
AuditAnswers ==
    { [pypi |-> PyPIError(""), github |-> GitHubData("error", 0, 0)],
      [pypi |-> PyPIError("404 Not Found"), github |-> GitHubData("error", 0, 0)],
      [pypi |-> PyPIData(V101, 0, TRUE), github |-> GitHubData("ok", 0, 2000)],
      [pypi |-> PyPIData(V101, 180, FALSE), github |-> GitHubData("error", 0, 0)],
      [pypi |-> PyPIData(V100, 365, TRUE), github |-> GitHubData("error", 0, 0)],
      [pypi |-> PyPIData(V101, 0, TRUE), github |-> GitHubData("ok", 180, 0)],
      [pypi |-> PyPIData(BadVersion, 0, FALSE), github |-> GitHubData("error", 0, 0)] }

\* The lines of the audited manifests.
AuditLineChoices ==
    { Line(FALSE, DependencyString(NameD, { Specifier("==", V100) }, <<>>)),
      Line(FALSE, DependencyString(NameAB, { Specifier(">=", V100) }, <<>>)),
      Line(TRUE, DependencyString(NameAB, { Specifier("==", V101) }, <<>>)) }

\* The state at the start of the audit command.
AuditStart ==
    /\ command = [name |-> "audit", package_name |-> <<>>, force |-> FALSE]
    /\ pc = "start"
    /\ exit_code = -1
    /\ output = <<>>
    /\ effects = <<>>
    /\ semaphore = [value |-> 0, waiters |-> <<>>]
    /\ tasks = <<>>
    /\ results = <<>>
    /\ summary = AuditSummary
    /\ requirements = <<>>
    /\ warnings = <<>>
    /\ calls = NoCall
    /\ CheckerIdle /\ FindIdle /\ HealthIdle

\* A manifest of up to MaxAudited equal lines, any limit, one package.
InitAudit ==
    /\ AuditStart
    /\ max_concurrent \in Limits
    /\ \E n \in 0..MaxAudited :
          manifest = [exists     |-> TRUE,
                      lines      |-> [i \in 1..n |->
                                         Line(FALSE, DependencyString(
                                             AuditedRequirement.name,
                                             AuditedRequirement.specifier, <<>>))],
                      terminated |-> TRUE]
    /\ registry \in [{ NameD } -> AuditAnswers]

\* A manifest of up to MaxLines lines of several packages, audited one at a
\* time or with the default limit.
InitAuditResults ==
    /\ AuditStart
    /\ max_concurrent \in { 1, DefaultMaxConcurrent }
    /\ manifest \in Files(AuditLineChoices, MaxLines)
    /\ registry \in [AuditNames -> AuditAnswers]

\* audit_requirements up to the call of gather: the requirements are parsed;
\* without requirements it returns an empty list and AuditSummary(),
\* otherwise the semaphore and one coroutine for each requirement are made.
AuditCreateTasks ==
    /\ command.name = "audit" /\ pc = "start"
    /\ LET out == get_local_requirements(manifest)
       IN  /\ requirements' = out.requirements
           /\ warnings' = out.warnings
           /\ IF out.requirements = <<>>
              THEN pc' = "returned" /\ UNCHANGED <<semaphore, tasks>>
              ELSE /\ pc' = "gather"
                   /\ semaphore' = [value |-> max_concurrent, waiters |-> <<>>]
                   /\ tasks' = [i \in DOMAIN out.requirements |->
                                   [pos |-> "created", result |-> NoResult]]
    /\ UNCHANGED <<manifest, calls, command, exit_code, output, effects,
                   max_concurrent, registry, results, summary,
                   checker_vars, find_vars, health_vars>>

\* Mutant: the coroutine calls audit_package without the semaphore.
TaskAcquire_NoSemaphore(i) ==
    /\ pc = "gather"
    /\ i \in TasksAt(tasks, "created")
    /\ \A j \in 1..(i - 1) : tasks[j].pos # "created"
    /\ tasks' = [tasks EXCEPT ![i].pos = "running"]
    /\ UNCHANGED semaphore
    /\ UNCHANGED <<max_concurrent, registry, results, summary, file_vars, cli_vars,
                   checker_vars, find_vars, health_vars>>

\* A coroutine starts (the tasks of gather start in order): `async with
\* semaphore` takes a permit and audit_package is called, or the task waits.
TaskAcquire(i) ==
    /\ pc = "gather"
    /\ i \in TasksAt(tasks, "created")
    /\ \A j \in 1..(i - 1) : tasks[j].pos # "created"
    /\ IF ~Locked(semaphore)
       THEN /\ semaphore' = [semaphore EXCEPT !.value = @ - 1]
            /\ tasks' = [tasks EXCEPT ![i].pos = "running"]
       ELSE /\ semaphore' = [semaphore EXCEPT !.waiters = Append(@, i)]
            /\ tasks' = [tasks EXCEPT ![i].pos = "waiting"]
    /\ UNCHANGED <<max_concurrent, registry, results, summary, file_vars, cli_vars,
                   checker_vars, find_vars, health_vars>>

\* A woken task runs again: it leaves the waiters and calls audit_package.
TaskResume(i) ==
    /\ pc = "gather"
    /\ i \in TasksAt(tasks, "woken")
    /\ LET out == WakeUpNext(
                      [semaphore EXCEPT !.waiters = SelectSeq(@, LAMBDA w : w # i)],
                      [tasks EXCEPT ![i].pos = "running"])
       IN  semaphore' = out.semaphore /\ tasks' = out.tasks
    /\ UNCHANGED <<max_concurrent, registry, results, summary, file_vars, cli_vars,
                   checker_vars, find_vars, health_vars>>

\* audit_package returns its result (it catches every exception) and the
\* permit is released: the next waiter is woken.
TaskRelease(i) ==
    /\ pc = "gather"
    /\ i \in TasksAt(tasks, "running")
    /\ LET req    == requirements[i]
           result == audit_package(req.name, CurrentVersion(req), registry[req.name])
           out    == WakeUpNext([semaphore EXCEPT !.value = @ + 1],
                                [tasks EXCEPT ![i] = [pos |-> "done", result |-> result]])
       IN  semaphore' = out.semaphore /\ tasks' = out.tasks
    /\ UNCHANGED <<max_concurrent, registry, results, summary, file_vars, cli_vars,
                   checker_vars, find_vars, health_vars>>

\* Mutant: the results are put in the list the last task first.
AuditGather_Reversed ==
    /\ pc = "gather"
    /\ \A i \in DOMAIN tasks : tasks[i].pos = "done"
    /\ results' = [i \in DOMAIN tasks |-> tasks[Len(tasks) + 1 - i].result]
    /\ summary' = Summarize(results', 1, [AuditSummary EXCEPT
                                              !.total_packages = Len(results')])
    /\ pc' = "returned"
    /\ UNCHANGED <<command, exit_code, output, effects, file_vars, max_concurrent,
                   semaphore, tasks, registry, checker_vars, find_vars, health_vars>>

\* gather returns, when every task is done, the results in the order of the
\* coroutines; the summary is computed and both are returned.
AuditGather ==
    /\ pc = "gather"
    /\ \A i \in DOMAIN tasks : tasks[i].pos = "done"
    /\ results' = [i \in DOMAIN tasks |-> tasks[i].result]
    /\ summary' = Summarize(results', 1, [AuditSummary EXCEPT
                                              !.total_packages = Len(results')])
    /\ pc' = "returned"
    /\ UNCHANGED <<command, exit_code, output, effects, file_vars, max_concurrent,
                   semaphore, tasks, registry, checker_vars, find_vars, health_vars>>

\* The lines the audit command prints after the table and the summary.
Recommendations(sm) ==
    (IF sm.zombie_packages > 0
     THEN << "Warning: Some packages have low activity (Zombie status)" >> ELSE <<>>)
    \o (IF sm.outdated_packages > 0
        THEN << "package(s) have updates available" >> ELSE <<>>)
    \o (IF sm.healthy_packages = sm.total_packages - sm.error_packages
        THEN << "All packages are healthy!" >> ELSE <<>>)

\* The audit command after audit_requirements has returned.
AuditReport ==
    /\ command.name = "audit" /\ pc = "returned"
    /\ output' = IF results = <<>> THEN output \o << "No packages found to audit." >>
                 ELSE output \o Recommendations(summary)
    /\ exit_code' = 0
    /\ pc' = "done"
    /\ UNCHANGED <<command, effects, file_vars, audit_vars, checker_vars, find_vars,
                   health_vars>>

NextAudit ==
    \/ AuditCreateTasks
    \/ \E i \in DOMAIN tasks : TaskAcquire(i)
    \/ \E i \in DOMAIN tasks : TaskResume(i)
    \/ \E i \in DOMAIN tasks : TaskRelease(i)
    \/ AuditGather
    \/ AuditReport

SpecAudit == InitAudit /\ [][NextAudit]_vars

SpecAuditResults == InitAuditResults /\ [][NextAudit]_vars

(* Properties of audit_requirements *)

\* C20: at every moment of audit_requirements at most max_concurrent calls
\* of audit_package are in progress.
C20_BoundedConcurrency ==
    Cardinality(TasksAt(tasks, "running")) <= max_concurrent

\* C20 witness: with the default limit, five calls are in progress, one
\* task waits and one has finished.
C20_Witness ==
    /\ max_concurrent = DefaultMaxConcurrent
    /\ Cardinality(TasksAt(tasks, "running")) = DefaultMaxConcurrent
    /\ TasksAt(tasks, "waiting") # {}
    /\ TasksAt(tasks, "done") # {}

\* The result a finished audit of requirement i must have: the name of the
\* requirement; after a failure of check_health an error, no report and
\* is_outdated False; otherwise the report of the package and no error.
ResultFits(result, req) ==
    LET answer == registry[req.name]
    IN  /\ result.package_name = req.name
        /\ result.current_version = CurrentVersion(req)
        /\ IF answer.pypi.ok
           THEN /\ result.error = NoError
                /\ result.health_report.kind = "report"
                /\ result.health_report.version = answer.pypi.version
                /\ result.latest_version = SomeVersion(answer.pypi.version)
           ELSE /\ result.error = SomeError(answer.pypi.message)
                /\ result.health_report = NoReport
                /\ result.latest_version = NoVersion
                /\ ~result.is_outdated

\* C24: every finished audit has the result that fits its own requirement,
\* whatever the other audits do and in whatever order they end, and it is
\* not altered afterwards; audit_requirements returns one result for each
\* requirement of the manifest, in the order of the manifest.
C24_OneResultEach ==
    [][command.name = "audit" =>
          /\ \A i \in DOMAIN tasks' :
                /\ (i \in DOMAIN tasks /\ tasks[i].pos = "done") => tasks'[i] = tasks[i]
                /\ tasks'[i].pos = "done" => ResultFits(tasks'[i].result, requirements'[i])
          /\ (pc # "returned" /\ pc' = "returned") =>
                /\ requirements' = RequirementsOf(manifest)
                /\ Len(results') = Len(requirements')
                /\ \A i \in DOMAIN results' :
                      /\ ResultFits(results'[i], requirements'[i])
                      /\ results'[i] = tasks[i].result
      ]_vars

\* C24 witness: two packages were audited concurrently, the audit of the
\* first failed and the second has its report.
C24_Witness ==
    /\ command.name = "audit" /\ pc = "returned"
    /\ max_concurrent = DefaultMaxConcurrent
    /\ Len(results) = 2
    /\ results[1].package_name = NameD /\ results[1].error.present
    /\ results[2].package_name = NameAB /\ results[2].health_report.kind = "report"

\* The results whose audit gave a report with the status.
WithStatus(status) ==
    { i \in DOMAIN results : /\ results[i].health_report.kind = "report"
                             /\ results[i].health_report.health_status = status }

\* C27: the summary returned partitions the audited packages into healthy,
\* slow, zombie and error; outdated and with-GitHub packages are among those
\* without error; and the audit command prints "All packages are healthy!"
\* exactly when no audited package is Slow or Zombie.
C27_SummaryPartitions ==
    (command.name = "audit" /\ pc \in {"returned", "done"}) =>
        /\ summary.total_packages = Len(results)
        /\ summary.total_packages =
               summary.healthy_packages + summary.slow_packages
                   + summary.zombie_packages + summary.error_packages
        /\ summary.outdated_packages <= summary.total_packages - summary.error_packages
        /\ summary.packages_with_github <= summary.total_packages - summary.error_packages
        /\ (pc = "done" /\ results # <<>>) =>
               (Printed("All packages are healthy!")
                    <=> (WithStatus("Slow") = {} /\ WithStatus("Zombie") = {}))

====
